---- MODULE Spec2Model ----
(***************************************************************************)
(* Benchmind: the test-simulation engine (services/test_framework.py), the *)
(* test-case -> result pipeline and report aggregator                      *)
(* (services/test_generator.py) and the testing-session handlers of app.py.*)
(*                                                                         *)
(* Conventions of the model                                                *)
(*   - a Python str is a sequence of one-character strings, so that `in`   *)
(*     (substring), startswith and len are computed, not assumed;          *)
(*   - a Python dict is a sequence of [key, value] records with unique     *)
(*     keys, in insertion order;                                           *)
(*   - a Python float that is a quotient is the exact fraction [n, d];     *)
(*   - a call's outcome is Return(value) or Raise(exception name);         *)
(*   - None is the value None_ (a sequence longer than any of the model);   *)
(*   - the f-string `message` fields of steps and progress events carry no *)
(*     state and are left out.                                             *)
(***************************************************************************)
EXTENDS Integers, Sequences, FiniteSets, TLC

VARIABLES
    agent_data,        \* FrameworkSpec/ValidateSpec: the AgentData handed to the constructor
    call,              \* FrameworkSpec/ValidateSpec: the last call made, with its arguments
    ret,               \* FrameworkSpec/ValidateSpec: the outcome of that call
    test_framework,    \* TestGenerator.test_framework (None_ or an AgentTestFramework)
    testing_sessions,  \* app.testing_sessions: session id -> session record (or NoSession)
    threads,           \* the background threads app.py started, and request threads
    hash_seed,         \* the process's string-hash seed (PYTHONHASHSEED)
    db_test_cases      \* Analysis.test_cases of the analysis in the database (None_ or a list)

appVars == <<test_framework, testing_sessions, threads, hash_seed, db_test_cases>>
vars == <<agent_data, call, ret, appVars>>

----------------------------------------------------------------------------
(* Bounds of the model *)

MaxTools == 2
MaxDeclared == 2
MaxIterations == 2

----------------------------------------------------------------------------
(* Python values *)

None_ == <<"N", "o", "n", "e", "T", "y", "p", "e">>

\* None where an object (a framework, a report) is expected
NoFramework == [is_none |-> TRUE]

Return(v) == [kind |-> "return", value |-> v]
Raise(e) == [kind |-> "raise", exc |-> e]

Max(a, b) == IF a >= b THEN a ELSE b
Min(a, b) == IF a <= b THEN a ELSE b

\* a quotient n / d kept exact
Frac(n, d) == [n |-> n, d |-> d]
FracLeq(x, y) == x.n * y.d <= y.n * x.d
FracEq(x, y) == x.n * y.d = y.n * x.d

\* Python `s in t` for two strings
IsSubstring(s, t) ==
    \E i \in 0..(Len(t) - Len(s)) : SubSeq(t, i + 1, i + Len(s)) = s

\* Python `x in list`
InList(x, list) == \E i \in 1..Len(list) : list[i] = x

\* sequences over S of length at most n
SeqUpTo(S, n) == UNION {[1..k -> S] : k \in 0..n}

\* dict operations
HasKey(d, k) == \E i \in 1..Len(d) : d[i].key = k
DictGet(d, k) == d[CHOOSE i \in 1..Len(d) : d[i].key = k].value
DictSet(d, k, v) ==
    IF HasKey(d, k)
    THEN [i \in 1..Len(d) |-> IF d[i].key = k THEN [key |-> k, value |-> v] ELSE d[i]]
    ELSE Append(d, [key |-> k, value |-> v])
DictKeys(d) == [i \in 1..Len(d) |-> d[i].key]

\* {x['id']: x for x in list}
RECURSIVE DictById(_)
DictById(list) ==
    IF list = <<>> THEN <<>>
    ELSE LET init == DictById(SubSeq(list, 1, Len(list) - 1))
             x == list[Len(list)]
         IN DictSet(init, x.id, x)

----------------------------------------------------------------------------
(* services/test_framework.py: AgentTestFramework *)

\* _build_execution_graph: node id -> [calls, called_by]
RECURSIVE BuildGraphFrom(_)
BuildGraphFrom(rels) ==
    IF rels = <<>> THEN <<>>
    ELSE LET g0 == BuildGraphFrom(SubSeq(rels, 1, Len(rels) - 1))
             rel == rels[Len(rels)]
             from_id == rel.from_agent_id
             to_id == rel.to_agent_id
             empty == [calls |-> <<>>, called_by |-> <<>>]
             g1 == IF HasKey(g0, from_id) THEN g0 ELSE DictSet(g0, from_id, empty)
             g2 == IF HasKey(g1, to_id) THEN g1 ELSE DictSet(g1, to_id, empty)
             src == DictGet(g2, from_id)
             g3 == DictSet(g2, from_id,
                     [src EXCEPT !.calls =
                         Append(@, [agent_id |-> to_id, relationship |-> rel])])
             dst == DictGet(g3, to_id)
         IN DictSet(g3, to_id,
                     [dst EXCEPT !.called_by =
                         Append(@, [agent_id |-> from_id, relationship |-> rel])])

\* the relationships with one edge kept for each pair of endpoints
RECURSIVE DedupRels(_)
DedupRels(rels) ==
    IF rels = <<>> THEN <<>>
    ELSE LET init == DedupRels(SubSeq(rels, 1, Len(rels) - 1))
             rel == rels[Len(rels)]
         IN IF \E i \in 1..Len(init) : /\ init[i].from_agent_id = rel.from_agent_id
                                        /\ init[i].to_agent_id = rel.to_agent_id
            THEN init
            ELSE Append(init, rel)

\* _build_execution_graph dropping parallel edges
build_execution_graph_dedup(relationships) == BuildGraphFrom(DedupRels(relationships))

build_execution_graph(relationships) == BuildGraphFrom(relationships)

\* AgentTestFramework.__init__(agent_data, framework_definition)
AgentTestFramework(ad, framework_definition) ==
    [agents |-> DictById(ad.agents),
     tools |-> DictById(ad.tools),
     relationships |-> ad.relationships,
     framework |-> framework_definition,
     agent_graph |-> build_execution_graph(ad.relationships)]

\* ToolResolves matching on the tool id alone
ToolResolvesIdOnly(fw, tid, agent_tools) ==
    \E k \in 1..Len(agent_tools) : IsSubstring(agent_tools[k], tid)

\* the comprehension of line 333: the tool ids some declared name resolves to
ToolResolves(fw, tid, agent_tools) ==
    \E k \in 1..Len(agent_tools) :
        \/ IsSubstring(agent_tools[k], tid)
        \/ IsSubstring(agent_tools[k], DictGet(fw.tools, tid).name)

AvailableTools(fw, agent_tools) ==
    SelectSeq(DictKeys(fw.tools), LAMBDA tid : ToolResolves(fw, tid, agent_tools))

\* ConfigValid with the upper end of the temperature range left out
ConfigValidExclusive(agent) ==
    /\ 0 <= agent.model_config.temperature
    /\ agent.model_config.temperature < 20
    /\ agent.model_config.max_tokens > 0

ConfigValid(agent) ==
    /\ 0 <= agent.model_config.temperature
    /\ agent.model_config.temperature <= 20
    /\ agent.model_config.max_tokens > 0

\* GraphCalls reading the incoming edges
GraphCalledBy(fw, agent_id) ==
    IF HasKey(fw.agent_graph, agent_id)
    THEN DictGet(fw.agent_graph, agent_id).called_by ELSE <<>>

GraphCalls(fw, agent_id) ==
    IF HasKey(fw.agent_graph, agent_id) THEN DictGet(fw.agent_graph, agent_id).calls ELSE <<>>

NotFoundSimulation == [error |-> "Agent not found", success |-> FALSE]

\* SimulateKnown executing every resolved tool, not the first two
SimulateKnownEveryTool(fw, agent_id, test_input, elapsed) ==
    LET agent == DictGet(fw.agents, agent_id)
        available_tools == AvailableTools(fw, agent.tools)
        calls == GraphCalls(fw, agent_id)
    IN [agent_id |-> agent_id,
        agent_name |-> agent.name,
        input |-> test_input,
        success |-> TRUE,
        execution_time |-> Frac(elapsed, 1),
        steps |-> <<[step |-> "initialization", status |-> "passed"],
                    [step |-> "tool_validation", tools |-> available_tools,
                     status |-> IF Len(available_tools) > 0 THEN "passed" ELSE "warning"],
                    [step |-> "config_validation",
                     status |-> IF ConfigValid(agent) THEN "passed" ELSE "failed"]>>
                  \o [i \in 1..Len(available_tools) |->
                        [step |-> "tool_execution",
                         tool_name |-> DictGet(fw.tools, available_tools[i]).name,
                         status |-> "passed"]]
                  \o (IF calls # <<>>
                      THEN <<[step |-> "agent_collaboration",
                              collaborators |-> [i \in 1..Len(calls) |-> calls[i].agent_id],
                              status |-> "passed"]>>
                      ELSE <<>>),
        metrics |-> [response_time |-> Frac(elapsed, 1),
                     tool_accuracy |-> Frac(Len(available_tools) * 100,
                                            Max(Len(agent.tools), 1)),
                     config_validity |-> IF ConfigValid(agent) THEN 100 ELSE 50,
                     collaboration_score |-> Len(calls) * 20]]

\* simulate_agent_execution(agent_id, test_input); elapsed is what the two
\* readings of time.time() differ by, in ms
SimulateKnown(fw, agent_id, test_input, elapsed) ==
    LET agent == DictGet(fw.agents, agent_id)
        agent_tools == agent.tools
        available_tools == AvailableTools(fw, agent_tools)
        config_valid == ConfigValid(agent)
        calls == GraphCalls(fw, agent_id)
        step1 == <<[step |-> "initialization", status |-> "passed"]>>
        step2 == <<[step |-> "tool_validation", tools |-> available_tools,
                    status |-> IF Len(available_tools) > 0 THEN "passed" ELSE "warning"]>>
        step3 == <<[step |-> "config_validation",
                    status |-> IF config_valid THEN "passed" ELSE "failed"]>>
        step4 == [i \in 1..Min(2, Len(available_tools)) |->
                    [step |-> "tool_execution",
                     tool_name |-> DictGet(fw.tools, available_tools[i]).name,
                     status |-> "passed"]]
        step5 == IF calls # <<>>
                 THEN <<[step |-> "agent_collaboration",
                         collaborators |-> [i \in 1..Len(calls) |-> calls[i].agent_id],
                         status |-> "passed"]>>
                 ELSE <<>>
    IN [agent_id |-> agent_id,
        agent_name |-> agent.name,
        input |-> test_input,
        success |-> TRUE,
        execution_time |-> Frac(elapsed, 1),
        steps |-> step1 \o step2 \o step3 \o step4 \o step5,
        metrics |-> [response_time |-> Frac(elapsed, 1),
                     tool_accuracy |-> Frac(Len(available_tools) * 100,
                                            Max(Len(agent_tools), 1)),
                     config_validity |-> IF config_valid THEN 100 ELSE 50,
                     collaboration_score |-> Len(calls) * 20]]

\* simulate_agent_execution without its not-found guard: self.agents[agent_id]
simulate_unguarded(fw, agent_id, test_input, elapsed) ==
    IF ~HasKey(fw.agents, agent_id)
    THEN Raise("KeyError")
    ELSE Return(SimulateKnown(fw, agent_id, test_input, elapsed))

simulate_agent_execution(fw, agent_id, test_input, elapsed) ==
    IF ~HasKey(fw.agents, agent_id)
    THEN Return(NotFoundSimulation)
    ELSE Return(SimulateKnown(fw, agent_id, test_input, elapsed))

\* the input of iteration i (0-based) of a stress test: f"Stress test input #{i+1}"
DigitChars == <<"1", "2", "3", "4", "5", "6", "7", "8", "9">>
StressInput(i) == <<"#", DigitChars[i + 1]>>

RECURSIVE SumFrac(_)
SumFrac(xs) ==
    IF xs = <<>> THEN Frac(0, 1)
    ELSE LET rest == SumFrac(Tail(xs))
         IN Frac(xs[1].n * rest.d + rest.n * xs[1].d, xs[1].d * rest.d)

\* run_stress_test counting every iteration as a success
run_stress_test_counts_all(fw, agent_id, num_iterations, times) ==
    IF num_iterations = 0
    THEN Raise("ZeroDivisionError")
    ELSE Return([agent_id |-> agent_id,
                 iterations |-> num_iterations,
                 response_times |-> [i \in 1..num_iterations |-> Frac(times[i], 1)],
                 success_rate |-> Frac(num_iterations * 100, num_iterations),
                 average_time |-> Frac(0, 1)])

\* run_stress_test(agent_id, num_iterations); times[i] is the elapsed time the
\* i-th simulate call measures
run_stress_test(fw, agent_id, num_iterations, times) ==
    LET outs == [i \in 1..num_iterations |->
                    simulate_agent_execution(fw, agent_id, StressInput(i - 1), times[i])]
        raised == {i \in 1..num_iterations : outs[i].kind = "raise"}
        ok == SelectSeq(outs, LAMBDA o : o.kind = "return" /\ o.value.success)
        successes == Len(ok)
        response_times == [i \in 1..Len(ok) |-> ok[i].value.execution_time]
        total == SumFrac(response_times)
    IN IF raised # {}
       THEN outs[CHOOSE i \in raised : \A j \in raised : i <= j]
       ELSE IF num_iterations = 0
       THEN Raise("ZeroDivisionError")
       ELSE Return([agent_id |-> agent_id,
                    iterations |-> num_iterations,
                    response_times |-> response_times,
                    success_rate |-> Frac(successes * 100, num_iterations),
                    average_time |-> IF response_times # <<>>
                                     THEN Frac(total.n, total.d * Len(response_times))
                                     ELSE Frac(0, 1)])

NotFoundEvaluation == [error |-> "Agent not found", passed |-> FALSE]

\* test_tool_calling(agent_id, tool_name); the optional tool_description and
\* tool_parameters copies are left out
test_tool_calling(fw, agent_id, tool_name) ==
    IF ~HasKey(fw.agents, agent_id)
    THEN Return(NotFoundEvaluation)
    ELSE LET agent_tools == DictGet(fw.agents, agent_id).tools
             has_tool == \/ InList(tool_name, agent_tools)
                         \/ \E k \in 1..Len(agent_tools) : IsSubstring(tool_name, agent_tools[k])
             tool_exists == \E i \in 1..Len(fw.tools) :
                                \/ IsSubstring(tool_name, fw.tools[i].value.name)
                                \/ IsSubstring(tool_name, fw.tools[i].key)
         IN Return([agent_id |-> agent_id,
                    tool_name |-> tool_name,
                    has_tool |-> has_tool,
                    tool_exists |-> tool_exists,
                    passed |-> has_tool /\ tool_exists])

\* test_reasoning passing from a score of 60
test_reasoning_lenient(fw, agent_id, scenario) ==
    IF ~HasKey(fw.agents, agent_id)
    THEN Return(NotFoundEvaluation)
    ELSE LET agent == DictGet(fw.agents, agent_id)
             has_clear_objective == Len(agent.objective) > 10
             has_detailed_prompt == Len(agent.prompt) > 50
             has_system_instruction == Len(agent.system_instruction) > 20
             reasoning_score == (IF has_clear_objective THEN 30 ELSE 0)
                                + (IF has_detailed_prompt THEN 40 ELSE 0)
                                + (IF has_system_instruction THEN 30 ELSE 0)
         IN Return([agent_id |-> agent_id,
                    scenario |-> scenario,
                    reasoning_score |-> reasoning_score,
                    has_clear_objective |-> has_clear_objective,
                    has_detailed_prompt |-> has_detailed_prompt,
                    has_system_instruction |-> has_system_instruction,
                    passed |-> reasoning_score >= 60])

\* test_reasoning(agent_id, scenario)
test_reasoning(fw, agent_id, scenario) ==
    IF ~HasKey(fw.agents, agent_id)
    THEN Return(NotFoundEvaluation)
    ELSE LET agent == DictGet(fw.agents, agent_id)
             has_clear_objective == Len(agent.objective) > 10
             has_detailed_prompt == Len(agent.prompt) > 50
             has_system_instruction == Len(agent.system_instruction) > 20
             reasoning_score == (IF has_clear_objective THEN 30 ELSE 0)
                                + (IF has_detailed_prompt THEN 40 ELSE 0)
                                + (IF has_system_instruction THEN 30 ELSE 0)
         IN Return([agent_id |-> agent_id,
                    scenario |-> scenario,
                    reasoning_score |-> reasoning_score,
                    has_clear_objective |-> has_clear_objective,
                    has_detailed_prompt |-> has_detailed_prompt,
                    has_system_instruction |-> has_system_instruction,
                    passed |-> reasoning_score >= 70])

----------------------------------------------------------------------------
(* services/test_generator.py: _validate_and_fix_test_cases *)

\* dict.get(key) of a record: None when the key is absent
GetSource(rel) == IF "source" \in DOMAIN rel THEN rel.source ELSE None_
GetTarget(rel) == IF "target" \in DOMAIN rel THEN rel.target ELSE None_

\* list.append(x) unless x is in the list already
AppendNew(list, x) == IF InList(x, list) THEN list ELSE Append(list, x)

Ids(list) == {list[i].id : i \in 1..Len(list)}

\* lines 468-471: the first agent that is not highlighted yet
RECURSIVE AppendFirstMissingAgent(_, _)
AppendFirstMissingAgent(hl, agents) ==
    IF agents = <<>> THEN hl
    ELSE IF ~InList(agents[1].id, hl) THEN Append(hl, agents[1].id)
    ELSE AppendFirstMissingAgent(hl, Tail(agents))

\* lines 477-484: the source and target of every relationship with the target id
RECURSIVE AppendEndpoints(_, _, _)
AppendEndpoints(hl, relationships, target_id) ==
    IF relationships = <<>> THEN hl
    ELSE LET rel == relationships[1]
             source == GetSource(rel)
             target_rel == GetTarget(rel)
             h1 == IF rel.id = target_id /\ source # None_ /\ source # <<>>
                   THEN AppendNew(hl, source) ELSE hl
             h2 == IF rel.id = target_id /\ target_rel # None_ /\ target_rel # <<>>
                   THEN AppendNew(h1, target_rel) ELSE h1
         IN AppendEndpoints(h2, Tail(relationships), target_id)

\* lines 486-494
RECURSIVE AppendAgents(_, _)
AppendAgents(hl, agents) ==
    IF agents = <<>> THEN hl
    ELSE AppendAgents(AppendNew(hl, agents[1].id), Tail(agents))

\* the body of the loop of _validate_and_fix_test_cases for one test case
ValidateAndFixOne(test_case, ad) ==
    LET agents == ad.agents
        agent_ids == Ids(ad.agents)
        tool_ids == Ids(ad.tools)
        relationship_ids == Ids(ad.relationships)
        target_type == test_case.target.type
        target_id == test_case.target.id
        h0 == IF test_case.highlight_elements = None_ THEN <<>>
              ELSE test_case.highlight_elements
        h1 == IF target_type = "agent" /\ target_id \in agent_ids
                THEN AppendNew(h0, target_id)
              ELSE IF target_type = "tool" /\ target_id \in tool_ids
                THEN AppendFirstMissingAgent(AppendNew(h0, target_id), agents)
              ELSE IF target_type = "relationship" /\ target_id \in relationship_ids
                THEN AppendEndpoints(AppendNew(h0, target_id), ad.relationships, target_id)
              ELSE h0
        added_agents == SelectSeq(h1, LAMBDA h : h \in agent_ids)
        h2 == IF test_case.category = "collaborative" /\ Len(added_agents) < 2
              THEN AppendAgents(h1, SubSeq(agents, 1, Min(2, Len(agents))))
              ELSE h1
    IN [test_case EXCEPT !.highlight_elements = h2]

validate_and_fix_test_cases(test_cases, ad) ==
    [i \in 1..Len(test_cases) |-> ValidateAndFixOne(test_cases[i], ad)]

----------------------------------------------------------------------------
(* services/test_generator.py: the test-case -> result pipeline *)

UpperChars == <<"A", "B", "C", "D", "E", "F", "G", "H", "I", "J", "K", "L", "M",
                "N", "O", "P", "Q", "R", "S", "T", "U", "V", "W", "X", "Y", "Z">>
LowerChars == <<"a", "b", "c", "d", "e", "f", "g", "h", "i", "j", "k", "l", "m",
                "n", "o", "p", "q", "r", "s", "t", "u", "v", "w", "x", "y", "z">>

\* str.lower()
Lower(str) ==
    [i \in 1..Len(str) |->
        IF \E k \in 1..Len(UpperChars) : UpperChars[k] = str[i]
        THEN LowerChars[CHOOSE k \in 1..Len(UpperChars) : UpperChars[k] = str[i]]
        ELSE str[i]]

\* str.startswith(prefix)
StartsWith(str, prefix) ==
    /\ Len(prefix) <= Len(str)
    /\ SubSeq(str, 1, Len(prefix)) = prefix

s_accuracy == <<"a", "c", "c", "u", "r", "a", "c", "y">>
s_response_time == <<"r", "e", "s", "p", "o", "n", "s", "e", "_", "t", "i", "m", "e">>
s_time == <<"t", "i", "m", "e">>
s_reasoning == <<"r", "e", "a", "s", "o", "n", "i", "n", "g">>
s_collaboration == <<"c", "o", "l", "l", "a", "b", "o", "r", "a", "t", "i", "o", "n">>

\* hash(str): fixed within a process, seeded per process; hash('') is 0
CharCode(c) ==
    IF \E k \in 1..Len(LowerChars) : LowerChars[k] = c
    THEN CHOOSE k \in 1..Len(LowerChars) : LowerChars[k] = c
    ELSE 27
RECURSIVE StrCode(_)
StrCode(str) == IF str = <<>> THEN 0 ELSE (CharCode(str[1]) + 31 * StrCode(Tail(str))) % 1009
PyHash(seed, str) == IF str = <<>> THEN 0 ELSE (seed + 1) * StrCode(str) + seed

\* metric.get('benchmark', default)
GetBenchmark(metric, default) ==
    IF "benchmark" \in DOMAIN metric THEN metric.benchmark ELSE default
\* metric.get('unit', '%')
GetUnit(metric) == IF "unit" \in DOMAIN metric THEN metric.unit ELSE "%"

\* Recommendation grading an accuracy of exactly 0.8 * benchmark as high
RecommendationInclusiveGap(category, metric) ==
    [severity |-> IF metric.value.n * 10 <= metric.benchmark * 8 * metric.value.d
                  THEN "high" ELSE "medium",
     category |-> category, issue |-> metric.name, line_number |-> 15]

\* Recommendation grading a "reasoning" metric as the generic branch does
RecommendationReasoningMedium(category, metric) ==
    [severity |-> "medium", category |-> category, issue |-> metric.name,
     line_number |-> 10]

\* the recommendation for one failed metric (lines 349-428); the fix template
\* is identified by its line_number
Recommendation(category, metric) ==
    LET metric_name == metric.name
        value == metric.value
        benchmark == metric.benchmark
        lower == Lower(metric_name)
    IN IF IsSubstring(s_accuracy, lower)
       THEN [severity |-> IF value.n * 10 < benchmark * 8 * value.d THEN "high" ELSE "medium",
             category |-> category, issue |-> metric_name, line_number |-> 15]
       ELSE IF IsSubstring(s_response_time, lower) \/ IsSubstring(s_time, lower)
       THEN [severity |-> IF value.n < benchmark * 2 * value.d THEN "medium" ELSE "high",
             category |-> category, issue |-> metric_name, line_number |-> 20]
       ELSE IF IsSubstring(s_reasoning, lower)
       THEN [severity |-> "high",
             category |-> category, issue |-> metric_name, line_number |-> 5]
       ELSE IF IsSubstring(s_collaboration, lower)
       THEN [severity |-> "medium",
             category |-> category, issue |-> metric_name, line_number |-> 25]
       ELSE [severity |-> "medium",
             category |-> category, issue |-> metric_name, line_number |-> 10]

\* _generate_recommendations without the filter on passed
generate_recommendations_all(test_case, metrics) ==
    [i \in 1..Len(metrics) |-> RecommendationReasoningMedium(test_case.category, metrics[i])]

\* _generate_recommendations(test_case, metrics, agent_data)
generate_recommendations(test_case, metrics) ==
    LET failed_metrics == SelectSeq(metrics, LAMBDA m : ~m.passed)
    IN [i \in 1..Len(failed_metrics) |->
            Recommendation(test_case.category, failed_metrics[i])]

AllPassed(metrics) == \A i \in 1..Len(metrics) : metrics[i].passed
FailedNames(metrics) ==
    LET failed == SelectSeq(metrics, LAMBDA m : ~m.passed)
    IN [i \in 1..Len(failed) |-> failed[i].name]

\* the result of the except branch (lines 685-695)
ErrorResult(test_case, exc) ==
    [test_id |-> test_case.id,
     status |-> "error",
     execution_time |-> Frac(100, 1),
     results |-> [summary |-> exc],
     metrics |-> <<>>,
     recommendations |-> <<>>]

\* TestResult reporting a test with a failed metric as failed
TestResultFailed(test_case, execution_time, metrics) ==
    [test_id |-> test_case.id,
     status |-> IF \A i \in 1..Len(metrics) : metrics[i].passed THEN "passed" ELSE "failed",
     execution_time |-> execution_time,
     results |-> [issues_found |-> <<>>],
     metrics |-> metrics,
     recommendations |-> <<>>]

TestResult(test_case, execution_time, metrics) ==
    [test_id |-> test_case.id,
     status |-> IF AllPassed(metrics) THEN "passed" ELSE "warning",
     execution_time |-> execution_time,
     results |-> [issues_found |-> FailedNames(metrics)],
     metrics |-> metrics,
     recommendations |-> generate_recommendations(test_case, metrics)]

\* ToolCallingPath giving every metric the fallback score
ToolCallingPathDefaultScore(fw, test_case, clk) ==
    Return([test_id |-> test_case.id,
            status |-> "passed",
            execution_time |-> Frac(clk.total, 1),
            results |-> [issues_found |-> <<>>],
            metrics |-> [i \in 1..Len(test_case.metrics) |->
                            [name |-> test_case.metrics[i].name,
                             value |-> Frac(85, 1),
                             unit |-> "%",
                             benchmark |-> 0,
                             passed |-> TRUE]],
            recommendations |-> <<>>])

\* lines 559-608: category tool_calling, target an agent
ToolCallingPath(fw, test_case, clk) ==
    LET framework_result ==
            simulate_agent_execution(fw, test_case.target.id, test_case.test_input, clk.sim).value
        metrics == test_case.metrics
        Value(metric_name) ==
            IF IsSubstring(s_accuracy, metric_name)
            THEN framework_result.metrics.tool_accuracy
            ELSE IF IsSubstring(s_response_time, metric_name)
            THEN (IF "execution_time" \in DOMAIN framework_result
                  THEN framework_result.execution_time ELSE Frac(100, 1))
            ELSE Frac(85, 1)
        result_metrics ==
            [i \in 1..Len(metrics) |->
                LET benchmark == GetBenchmark(metrics[i], 95)
                    value == Value(metrics[i].name)
                IN [name |-> metrics[i].name,
                    value |-> value,
                    unit |-> GetUnit(metrics[i]),
                    benchmark |-> benchmark,
                    passed |-> FracLeq(Frac(benchmark, 1), value)]]
    IN IF /\ "metrics" \notin DOMAIN framework_result
          /\ \E i \in 1..Len(metrics) : IsSubstring(s_accuracy, metrics[i].name)
       THEN Raise("KeyError")
       ELSE Return(TestResult(test_case, Frac(clk.total, 1), result_metrics))

\* PerformancePath stressing with three iterations
PerformancePathThreeRuns(fw, test_case, clk) ==
    Return([test_id |-> test_case.id,
            status |-> "passed",
            execution_time |-> run_stress_test(fw, test_case.target.id, 3, clk.stress).value.average_time,
            results |-> [issues_found |-> <<>>],
            metrics |-> [i \in 1..Len(test_case.metrics) |->
                            [name |-> test_case.metrics[i].name,
                             value |-> run_stress_test(fw, test_case.target.id, 3,
                                                       clk.stress).value.average_time,
                             unit |-> "ms",
                             benchmark |-> 500,
                             passed |-> TRUE]],
            recommendations |-> <<>>])

StressIterations == 5

\* lines 610-645: category performance, target an agent
PerformancePath(fw, test_case, clk) ==
    LET out == run_stress_test(fw, test_case.target.id, StressIterations, clk.stress)
        stress_result == out.value
        timed == SelectSeq(test_case.metrics,
                           LAMBDA m : IsSubstring(s_response_time, m.name))
        metrics ==
            [i \in 1..Len(timed) |->
                LET value == stress_result.average_time
                IN [name |-> timed[i].name,
                    value |-> value,
                    unit |-> "ms",
                    benchmark |-> GetBenchmark(timed[i], 500),
                    passed |-> FracLeq(value, Frac(GetBenchmark(timed[i], 500), 1))]]
    IN IF out.kind = "raise" THEN out
       ELSE Return(TestResult(test_case, stress_result.average_time, metrics))

\* lines 647-683: every other test case
GenericPath(fw, test_case, seed, clk) ==
    LET out == IF test_case.target.type = "agent"
               THEN simulate_agent_execution(fw, test_case.target.id,
                                             test_case.test_input, clk.sim)
               ELSE Return([steps |-> <<>>, metrics |-> <<>>])
        metrics ==
            [i \in 1..Len(test_case.metrics) |->
                LET metric == test_case.metrics[i]
                    value == Frac(85 + (PyHash(seed, metric.name) % 15), 1)
                IN [name |-> metric.name,
                    value |-> value,
                    unit |-> GetUnit(metric),
                    benchmark |-> GetBenchmark(metric, 80),
                    passed |-> FracLeq(Frac(GetBenchmark(metric, 80), 1), value)]]
    IN IF out.kind = "raise" THEN out
       ELSE Return(TestResult(test_case, Frac(clk.total, 1), metrics))

\* the try block of run_test (lines 558-683), run against the framework fw
\* that self.test_framework holds when it is entered
run_test_try(fw, test_case, seed, clk) ==
    IF test_case.category = "tool_calling" /\ test_case.target.type = "agent"
    THEN ToolCallingPath(fw, test_case, clk)
    ELSE IF test_case.category = "performance" /\ test_case.target.type = "agent"
    THEN PerformancePath(fw, test_case, clk)
    ELSE GenericPath(fw, test_case, seed, clk)

\* the except branch (lines 685-695): an exception becomes an error result
run_test_except(test_case, out) ==
    IF out.kind = "raise"
    THEN Return(ErrorResult(test_case, out.exc))
    ELSE out

run_test_dispatch(fw, test_case, seed, clk) ==
    run_test_except(test_case, run_test_try(fw, test_case, seed, clk))

\* lines 516-518 of run_test: the framework is built here when there is none;
\* AgentTestFramework takes two arguments and is given one
run_test_init(fw, ad) ==
    IF fw = NoFramework
    THEN Raise("TypeError")
    ELSE Return(fw)

----------------------------------------------------------------------------
(* services/test_generator.py: generate_test_report *)

\* round(x, 2) of a non-negative quotient, as hundredths
Round2(x) ==
    LET scaled == x.n * 100
        q == scaled \div x.d
        r == scaled % x.d
        k == IF 2 * r < x.d THEN q
             ELSE IF 2 * r > x.d THEN q + 1
             ELSE IF q % 2 = 0 THEN q ELSE q + 1
    IN Frac(k, 100)

\* sum(values) / len(values) if values else 0
Mean(values) ==
    IF values = <<>> THEN Frac(0, 1)
    ELSE LET total == SumFrac(values) IN Frac(total.n, total.d * Len(values))

\* CountStatus counting the results of every other status
CountStatusOthers(results, status) == Len(SelectSeq(results, LAMBDA r : r.status # status))

CountStatus(results, status) == Len(SelectSeq(results, LAMBDA r : r.status = status))

RECURSIVE Flatten(_)
Flatten(lists) == IF lists = <<>> THEN <<>> ELSE lists[1] \o Flatten(Tail(lists))

\* CategoryScores keeping the last value recorded under each name
RECURSIVE CategoryScoresLast(_)
CategoryScoresLast(metrics) ==
    IF metrics = <<>> THEN <<>>
    ELSE LET d == CategoryScoresLast(SubSeq(metrics, 1, Len(metrics) - 1))
             metric == metrics[Len(metrics)]
         IN DictSet(d, metric.name, <<metric.value>>)

\* lines 846-856: metric name -> the values recorded under it
RECURSIVE CategoryScores(_)
CategoryScores(metrics) ==
    IF metrics = <<>> THEN <<>>
    ELSE LET d == CategoryScores(SubSeq(metrics, 1, Len(metrics) - 1))
             metric == metrics[Len(metrics)]
             category == metric.name
             scores == IF HasKey(d, category) THEN DictGet(d, category) ELSE <<>>
         IN DictSet(d, category, Append(scores, metric.value))

\* r.get('highlight_elements', [])
GetHighlights(r) ==
    IF "highlight_elements" \in DOMAIN r THEN r.highlight_elements ELSE <<>>

\* AgentTests selecting on the test_id alone
AgentTestsByIdOnly(results, agent_id) ==
    SelectSeq(results, LAMBDA r : StartsWith(r.test_id, agent_id))

\* lines 868-869
AgentTests(results, agent_id) ==
    SelectSeq(results, LAMBDA r : \/ StartsWith(r.test_id, agent_id)
                                  \/ InList(agent_id, GetHighlights(r)))

\* lines 871-885
AgentEntry(agent, agent_tests) ==
    LET agent_metrics == Flatten([i \in 1..Len(agent_tests) |-> agent_tests[i].metrics])
        avg_score == Mean([i \in 1..Len(agent_metrics) |-> agent_metrics[i].value])
    IN [name |-> agent.name,
        tests_run |-> Len(agent_tests),
        passed |-> CountStatus(agent_tests, "passed"),
        failed |-> CountStatus(agent_tests, "failed"),
        average_score |-> Round2(avg_score),
        metrics |-> agent_metrics]

\* lines 865-885: agent id -> entry, for the agents with at least one test
RECURSIVE AgentPerformance(_, _)
AgentPerformance(agents, results) ==
    IF agents = <<>> THEN <<>>
    ELSE LET d == AgentPerformance(SubSeq(agents, 1, Len(agents) - 1), results)
             agent == agents[Len(agents)]
             agent_tests == AgentTests(results, agent.id)
         IN IF agent_tests # <<>>
            THEN DictSet(d, agent.id, AgentEntry(agent, agent_tests))
            ELSE d

\* lines 888-898
AllRecommendations(results) ==
    Flatten([i \in 1..Len(results) |->
        [k \in 1..Len(results[i].recommendations) |->
            [severity |-> results[i].recommendations[k].severity,
             category |-> results[i].recommendations[k].category,
             issue |-> results[i].recommendations[k].issue,
             line_number |-> results[i].recommendations[k].line_number,
             test_id |-> results[i].test_id,
             test_name |-> "Unknown Test"]]])

CriticalIssues(results) ==
    SelectSeq(Flatten([i \in 1..Len(results) |-> results[i].recommendations]),
              LAMBDA rec : rec.severity = "critical")

Report(test_results, ad) ==
    LET total_tests == Len(test_results)
        passed == CountStatus(test_results, "passed")
        failed == CountStatus(test_results, "failed")
        warnings == CountStatus(test_results, "warning")
        errors == CountStatus(test_results, "error")
        category_scores ==
            CategoryScores(Flatten([i \in 1..Len(test_results) |-> test_results[i].metrics]))
        category_averages ==
            [i \in 1..Len(category_scores) |->
                [key |-> category_scores[i].key, value |-> Mean(category_scores[i].value)]]
        agent_performance == AgentPerformance(ad.agents, test_results)
    IN [summary |->
            [total_tests |-> total_tests,
             passed |-> passed,
             failed |-> failed,
             warnings |-> warnings,
             errors |-> errors,
             success_rate |-> Round2(IF total_tests > 0
                                     THEN Frac(passed * 100, total_tests)
                                     ELSE Frac(0, 1))],
        category_performance |->
            [i \in 1..Len(category_averages) |->
                [category |-> category_averages[i].key,
                 average_score |-> Round2(category_averages[i].value),
                 benchmark |-> 85,
                 passed |-> FracLeq(Frac(85, 1), category_averages[i].value)]],
        agent_performance |->
            [i \in 1..Len(agent_performance) |-> agent_performance[i].value],
        recommendations |-> AllRecommendations(test_results),
        critical_issues |-> CriticalIssues(test_results),
        charts_data |->
            [test_distribution |-> <<passed, failed, warnings, errors>>,
             category_scores |->
                [labels |-> DictKeys(category_averages),
                 values |-> [i \in 1..Len(category_averages) |->
                                Round2(category_averages[i].value)],
                 benchmarks |-> [i \in 1..Len(category_averages) |-> 85]],
             agent_comparison |->
                [labels |-> [i \in 1..Len(agent_performance) |->
                                agent_performance[i].value.name],
                 values |-> [i \in 1..Len(agent_performance) |->
                                agent_performance[i].value.average_score]]]]

\* generate_test_report(test_results, agent_data): line 868 calls
\* r.get('test_id', '').startswith(agent_id) on every result for every agent,
\* and the test_id of a result is None when its test case has no id
generate_test_report(test_results, ad) ==
    IF /\ ad.agents # <<>>
       /\ \E i \in 1..Len(test_results) : test_results[i].test_id = None_
    THEN Raise("AttributeError")
    ELSE Return(Report(test_results, ad))

----------------------------------------------------------------------------
(* The data the framework is exercised on *)

\* a string of n characters
Rep(n) == [i \in 1..n |-> "x"]

a1 == <<"a", "1">>
a2 == <<"a", "2">>
a3 == <<"a", "3">>
AgentIdPool == {a1, a2, a3}

\* names an agent declares in its `tools` list, and the ids and names of tools
DeclaredPool == {<<"s">>, <<"s", "t">>, <<"w">>}
ToolIdPool == {<<"s">>, <<"s", "t">>}
ToolNamePool == {<<"s">>, <<"w">>}
ToolPool == [id : ToolIdPool, name : ToolNamePool]

\* temperature is kept in tenths (5 is 0.5, 20 is 2.0); texts are the lengths
\* of objective, prompt and system_instruction
Agent(id, tools, temperature, max_tokens, texts) ==
    [id |-> id,
     name |-> id \o <<"n">>,
     tools |-> tools,
     model_config |-> [temperature |-> temperature, max_tokens |-> max_tokens],
     objective |-> Rep(texts[1]),
     prompt |-> Rep(texts[2]),
     system_instruction |-> Rep(texts[3])]

Rel(id, from, to) ==
    [id |-> id, from_agent_id |-> from, to_agent_id |-> to, type |-> "calls"]

r1 == <<"r", "1">>
r2 == <<"r", "2">>
RelListPool == {<<>>, <<Rel(r1, a1, a2)>>, <<Rel(r1, a1, a2), Rel(r2, a1, a3)>>}

DefaultFramework ==
    [framework_name |-> "Default Testing Framework",
     test_categories |-> <<>>,
     performance_benchmarks |-> <<>>]

\* AgentData keys its agents and tools by id (unique ids)
UniqueIds(list) == \A i, j \in 1..Len(list) : list[i].id = list[j].id => i = j

AgentDataPool ==
    {[agents |-> <<Agent(a1, declared, 5, 500, <<3, 2, 1>>), Agent(a2, <<>>, 25, 0, <<0, 0, 0>>)>>,
      tools |-> tools,
      relationships |-> rels] :
        declared \in SeqUpTo(DeclaredPool, MaxDeclared),
        tools \in {t \in SeqUpTo(ToolPool, MaxTools) : UniqueIds(t)},
        rels \in RelListPool}

ElapsedPool == {1, 2}
query == <<"q">>

NoCall == [op |-> "none"]
NoSession == [status |-> "absent"]
SessionIds == {1, 2}
MaxConfirms == 1
\* per session: the generation thread and the threads confirm_tests started
ThreadKeys == {<<s, "gen", 1>> : s \in SessionIds}
              \cup {<<s, "run", k>> : s \in SessionIds, k \in 1..MaxConfirms}
NoThread == [kind |-> "none"]

----------------------------------------------------------------------------
(* FrameworkSpec: one AgentTestFramework, built from AgentData drawn from   *)
(* AgentDataPool, and one call of one of its methods.  The framework is not *)
(* written after construction, so calls are independent of each other.      *)

FrameworkInit ==
    /\ agent_data \in AgentDataPool
    /\ test_framework = AgentTestFramework(agent_data, DefaultFramework)
    /\ call = NoCall
    /\ ret = NoCall
    /\ testing_sessions = [s \in SessionIds |-> NoSession]
    /\ threads = [t \in ThreadKeys |-> NoThread]
    /\ hash_seed = 0
    /\ db_test_cases = None_

Simulate ==
    /\ call = NoCall
    /\ \E id \in AgentIdPool, e \in ElapsedPool :
        /\ call' = [op |-> "simulate", agent_id |-> id, test_input |-> query]
        /\ ret' = simulate_agent_execution(test_framework, id, query, e)
    /\ UNCHANGED <<agent_data, appVars>>

RunStressTest ==
    /\ call = NoCall
    /\ \E id \in AgentIdPool, n \in 0..MaxIterations :
        \E times \in [1..n -> ElapsedPool] :
            /\ call' = [op |-> "stress", agent_id |-> id, num_iterations |-> n]
            /\ ret' = run_stress_test(test_framework, id, n, times)
    /\ UNCHANGED <<agent_data, appVars>>

TestToolCalling ==
    /\ call = NoCall
    /\ \E id \in AgentIdPool, tool_name \in DeclaredPool :
        /\ call' = [op |-> "tool_calling", agent_id |-> id, tool_name |-> tool_name]
        /\ ret' = test_tool_calling(test_framework, id, tool_name)
    /\ UNCHANGED <<agent_data, appVars>>

TestReasoning ==
    /\ call = NoCall
    /\ \E id \in AgentIdPool :
        /\ call' = [op |-> "reasoning", agent_id |-> id, scenario |-> query]
        /\ ret' = test_reasoning(test_framework, id, query)
    /\ UNCHANGED <<agent_data, appVars>>

FrameworkNext == Simulate \/ RunStressTest \/ TestToolCalling \/ TestReasoning

FrameworkSpec == FrameworkInit /\ [][FrameworkNext]_vars

----------------------------------------------------------------------------
(* Claims about the framework, checked under FrameworkSpec *)

KnownAgent(id) == \E i \in 1..Len(agent_data.agents) : agent_data.agents[i].id = id
AgentOf(id) == agent_data.agents[CHOOSE i \in 1..Len(agent_data.agents) :
                                    agent_data.agents[i].id = id]

\* C3: for an agent id that is not in the agent set, simulate_agent_execution,
\* test_tool_calling and test_reasoning return (never raise) a value with
\* error = "Agent not found" and a false success/passed flag; simulate returns
\* exactly {error: "Agent not found", success: false}, with no steps or metrics.
C3_NotFoundIsReturned ==
    (call.op \in {"simulate", "tool_calling", "reasoning"} /\ ~KnownAgent(call.agent_id)) =>
        /\ ret.kind = "return"
        /\ ret.value.error = "Agent not found"
        /\ call.op = "simulate" =>
            /\ DOMAIN ret.value = {"error", "success"}
            /\ ret.value.success = FALSE
        /\ call.op # "simulate" => ret.value.passed = FALSE

C3_Witness ==
    /\ call.op = "simulate"
    /\ call.agent_id = a3
    /\ ~KnownAgent(a3)
    /\ ret.kind = "return"
    /\ ret.value.success = FALSE

C5_ZeroIterations ==
    (call.op = "stress" /\ call.num_iterations = 0) =>
        /\ ret.kind = "return"
        /\ FracEq(ret.value.success_rate, Frac(0, 1))
        /\ FracEq(ret.value.average_time, Frac(0, 1))
        /\ ret.value.response_times = <<>>

\* the tool ids the tool_validation step of a simulation lists
ResolvedTools(sim) == sim.steps[2].tools

\* C6: for a known agent, tool_accuracy is in [0, 100] and equals
\* resolved_tool_count / max(declared_tool_count, 1) * 100; it is 0 when the
\* agent declares no tools.
C6_ToolAccuracy ==
    (call.op = "simulate" /\ KnownAgent(call.agent_id)) =>
        LET acc == ret.value.metrics.tool_accuracy
            resolved == Len(ResolvedTools(ret.value))
            declared == Len(AgentOf(call.agent_id).tools)
        IN /\ ret.kind = "return"
           /\ FracLeq(Frac(0, 1), acc)
           /\ FracLeq(acc, Frac(100, 1))
           /\ FracEq(acc, Frac(resolved * 100, Max(declared, 1)))
           /\ declared = 0 => FracEq(acc, Frac(0, 1))

\* the name of the tool with id tid in the agent data
ToolName(tid) == agent_data.tools[CHOOSE i \in 1..Len(agent_data.tools) :
                                     agent_data.tools[i].id = tid].name

\* C7 (as amended): in the tool validation step a tool is resolved for the
\* agent iff some declared tool name is a substring of the tool's id or of the
\* tool's name (the declared name is always the contained string); the step is
\* passed iff at least one tool resolves, else warning.
C7_ToolResolution ==
    (call.op = "simulate" /\ KnownAgent(call.agent_id)) =>
        LET declared == AgentOf(call.agent_id).tools
            step == ret.value.steps[2]
        IN /\ step.step = "tool_validation"
           /\ \A i \in 1..Len(agent_data.tools) :
                LET tid == agent_data.tools[i].id
                IN InList(tid, step.tools) <=>
                     \E k \in 1..Len(declared) :
                        \/ IsSubstring(declared[k], tid)
                        \/ IsSubstring(declared[k], ToolName(tid))
           /\ \A i \in 1..Len(step.tools) :
                \E j \in 1..Len(agent_data.tools) : agent_data.tools[j].id = step.tools[i]
           /\ step.status = (IF Len(step.tools) >= 1 THEN "passed" ELSE "warning")

\* a tool resolved through its name alone: no declared name is in its id
C7_Witness ==
    /\ call.op = "simulate"
    /\ KnownAgent(call.agent_id)
    /\ ret.value.steps[2].status = "passed"
    /\ \E i \in 1..Len(ret.value.steps[2].tools) :
        \A k \in 1..Len(AgentOf(call.agent_id).tools) :
            ~IsSubstring(AgentOf(call.agent_id).tools[k], ret.value.steps[2].tools[i])

\* C7 (as claimed): a tool is resolved iff some declared tool name is a
\* substring of the tool's id or the tool's id is a substring of some declared
\* tool name; the step is passed iff at least one tool resolves, else warning.
C7_AsClaimed ==
    (call.op = "simulate" /\ KnownAgent(call.agent_id)) =>
        LET declared == AgentOf(call.agent_id).tools
            step == ret.value.steps[2]
        IN /\ \A i \in 1..Len(agent_data.tools) :
                LET tid == agent_data.tools[i].id
                IN InList(tid, step.tools) <=>
                     \E k \in 1..Len(declared) :
                        \/ IsSubstring(declared[k], tid)
                        \/ IsSubstring(tid, declared[k])
           /\ step.status = (IF Len(step.tools) >= 1 THEN "passed" ELSE "warning")

----------------------------------------------------------------------------
(* ValidateSpec: _validate_and_fix_test_cases on generated test cases whose *)
(* targets are ids of the agent data                                        *)

MaxCases == 2

ts == <<"t", "s">>
SearchTool == [id |-> ts, name |-> <<"s">>]

\* the relationship as the parser emits it, and in the source/target shape
RelShapes == {Rel(r1, a1, a2),
              [id |-> r1, source |-> a1, target |-> a2, type |-> "calls"]}

\* which of the two agents declare the tool
ValidateDataPool ==
    {[agents |-> <<Agent(a1, d[1], 5, 500, <<3, 2, 1>>),
                   Agent(a2, d[2], 5, 500, <<3, 2, 1>>)>>,
      tools |-> <<SearchTool>>,
      relationships |-> <<rel>>] :
        d \in {<<<<<<"s">>>>, <<>>>>, <<<<>>, <<<<"s">>>>>>, <<<<<<"s">>>>, <<<<"s">>>>>>},
        rel \in RelShapes}

TestCase(id, category, target_type, target_id, highlight_elements, metrics) ==
    [id |-> id,
     category |-> category,
     target |-> [type |-> target_type, id |-> target_id],
     test_input |-> query,
     highlight_elements |-> highlight_elements,
     metrics |-> metrics]

tc1 == <<"t", "1">>

GeneratedCasePool ==
    {TestCase(tc1, category, target[1], target[2], hl, <<>>) :
        category \in {"tool_calling", "collaborative"},
        target \in {<<"agent", a1>>, <<"agent", a2>>, <<"tool", ts>>, <<"relationship", r1>>},
        hl \in {None_, <<>>, <<a1>>, <<a2>>}}

ValidateInit ==
    /\ agent_data \in ValidateDataPool
    /\ test_framework = NoFramework
    /\ call = NoCall
    /\ ret = NoCall
    /\ testing_sessions = [s \in SessionIds |-> NoSession]
    /\ threads = [t \in ThreadKeys |-> NoThread]
    /\ hash_seed = 0
    /\ db_test_cases = None_

ValidateAndFix ==
    /\ call = NoCall
    /\ \E test_cases \in SeqUpTo(GeneratedCasePool, MaxCases) :
        /\ call' = [op |-> "validate", test_cases |-> test_cases]
        /\ ret' = Return(validate_and_fix_test_cases(test_cases, agent_data))
    /\ UNCHANGED <<agent_data, appVars>>

ValidateNext == ValidateAndFix

ValidateSpec == ValidateInit /\ [][ValidateNext]_vars

\* an agent declares a tool when one of its declared names is in the tool's id or name
Declares(agent, tool) ==
    \E k \in 1..Len(agent.tools) :
        \/ IsSubstring(agent.tools[k], tool.id)
        \/ IsSubstring(agent.tools[k], tool.name)

\* the two endpoint agent ids of a relationship, in either shape
Endpoints(rel) ==
    IF "from_agent_id" \in DOMAIN rel
    THEN {rel.from_agent_id, rel.to_agent_id}
    ELSE {rel.source, rel.target}

HighlightsOk(test_case, ad) ==
    LET hl == test_case.highlight_elements
        target == test_case.target
    IN /\ hl # None_
       /\ InList(target.id, hl)
       /\ target.type = "tool" =>
            \E i \in 1..Len(ad.agents), j \in 1..Len(ad.tools) :
                /\ ad.tools[j].id = target.id
                /\ Declares(ad.agents[i], ad.tools[j])
                /\ InList(ad.agents[i].id, hl)
       /\ target.type = "relationship" =>
            \A j \in 1..Len(ad.relationships) :
                ad.relationships[j].id = target.id =>
                    \A e \in Endpoints(ad.relationships[j]) : InList(e, hl)
       /\ test_case.category = "collaborative" =>
            Cardinality({hl[i] : i \in 1..Len(hl)} \cap Ids(ad.agents)) >= 2

\* C8: after _validate_and_fix_test_cases every test case's highlight_elements
\* contains its target id; for a tool target also the id of an agent that
\* declares that tool; for a relationship target both endpoint agent ids; and
\* for a collaborative test at least two agent ids.
C8_HighlightsComplete ==
    call.op = "validate" =>
        \A i \in 1..Len(ret.value) : HighlightsOk(ret.value[i], agent_data)

----------------------------------------------------------------------------
(* Spec: the testing sessions of app.py on the application's one            *)
(* TestGenerator.  Requests carry an analysis_id or none and no repo_url    *)
(* (the legacy in-memory cache is not consulted); the progress log is not   *)
(* modelled.  Each background thread takes one step between two of its      *)
(* suspension points (LLM calls and time.sleep).                            *)

MAX_TEST_CASES == 10

NoReport == [is_none |-> TRUE]

Metric(name, unit, benchmark) == [name |-> name, unit |-> unit, benchmark |-> benchmark]

t1 == <<"t", "1">>
t3 == <<"t", "3">>

\* a tool-calling test of agent a1, a test case the LLM gave no id, and a
\* tool-calling test of an agent that is not in the agent data
AccuracyCase == TestCase(t1, "tool_calling", "agent", a1, <<>>,
                         <<Metric(s_accuracy, "%", 90)>>)
NoIdCase == TestCase(None_, "reasoning", "agent", a1, <<>>,
                     <<Metric(s_reasoning, "%", 95)>>)
UnknownAgentCase == TestCase(t3, "tool_calling", "agent", a3, <<>>,
                             <<Metric(s_accuracy, "%", 90)>>)

\* what the LLM may answer generate_test_cases with
LlmListPool == {<<NoIdCase>>, <<UnknownAgentCase, AccuracyCase>>}

\* the agent data of two repositories: in the first a1's declared tool
\* resolves, in the second it does not
DataA == [agents |-> <<Agent(a1, <<<<"s">>>>, 5, 500, <<3, 2, 1>>),
                       Agent(a2, <<>>, 5, 500, <<3, 2, 1>>)>>,
          tools |-> <<[id |-> <<"s">>, name |-> <<"s">>]>>,
          relationships |-> <<Rel(r1, a1, a2)>>]
DataB == [agents |-> <<Agent(a1, <<<<"w">>>>, 5, 500, <<3, 2, 1>>)>>,
          tools |-> <<[id |-> <<"s">>, name |-> <<"s">>]>>,
          relationships |-> <<>>]
SessionDataPool == {DataA, DataB}

FrameworkDefinitions == {DefaultFramework}

HashSeeds == {0, 1}
ClockPool == {[sim |-> 1, total |-> 2, stress |-> <<1, 1, 1, 1, 1>>]}
AnalysisIds == {None_, <<"A">>}

\* test cases a previous run of the server left in the database
StoredListPool ==
    {None_, validate_and_fix_test_cases(<<AccuracyCase>>, DataA)}

Init ==
    /\ agent_data = DataA
    /\ call = NoCall
    /\ ret = NoCall
    /\ test_framework = NoFramework
    /\ testing_sessions = [s \in SessionIds |-> NoSession]
    /\ threads = [t \in ThreadKeys |-> NoThread]
    /\ hash_seed \in HashSeeds
    /\ db_test_cases \in StoredListPool

Truthy(list) == list # None_ /\ list # <<>>

\* start_testing_session (lines 906-1052); session ids are fresh
StartSession(s) ==
    /\ testing_sessions[s] = NoSession
    /\ \A s2 \in SessionIds : s2 < s => testing_sessions[s2] # NoSession
    /\ \E ad \in SessionDataPool, analysis_id \in AnalysisIds :
        IF analysis_id # None_ /\ Truthy(db_test_cases)
        THEN /\ testing_sessions' = [testing_sessions EXCEPT ![s] =
                    [status |-> "ready_for_confirmation",
                     agent_data |-> ad,
                     test_cases |-> db_test_cases,
                     list_obj |-> "db",
                     test_results |-> <<>>,
                     report |-> NoReport,
                     from_cache |-> TRUE,
                     analysis_id |-> analysis_id]]
             /\ UNCHANGED threads
        ELSE /\ testing_sessions' = [testing_sessions EXCEPT ![s] =
                    [status |-> "generating",
                     agent_data |-> ad,
                     test_cases |-> <<>>,
                     list_obj |-> "init",
                     test_results |-> <<>>,
                     report |-> NoReport,
                     from_cache |-> FALSE,
                     analysis_id |-> analysis_id]]
             /\ threads' = [threads EXCEPT ![<<s, "gen", 1>>] =
                    [kind |-> "gen", pc |-> "framework", generated |-> <<>>, k |-> 0]]
    /\ UNCHANGED <<agent_data, call, ret, test_framework, hash_seed, db_test_cases>>

\* generate_test_cases, lines 52-69: the framework definition arrives and
\* self.test_framework is replaced
GenBuildFramework(s) ==
    LET t == <<s, "gen", 1>> IN
    /\ threads[t].kind = "gen"
    /\ threads[t].pc = "framework"
    /\ \E fd \in FrameworkDefinitions :
        test_framework' = AgentTestFramework(testing_sessions[s].agent_data, fd)
    /\ threads' = [threads EXCEPT ![t].pc = "llm"]
    /\ UNCHANGED <<agent_data, call, ret, testing_sessions, hash_seed, db_test_cases>>

\* generate_test_cases, lines 154-183: the LLM answers with a JSON list
GenLlmReturns(s) ==
    LET t == <<s, "gen", 1>> IN
    /\ threads[t].kind = "gen"
    /\ threads[t].pc = "llm"
    /\ \E raw \in LlmListPool :
        threads' = [threads EXCEPT
            ![t].pc = "emit",
            ![t].generated =
                validate_and_fix_test_cases(SubSeq(raw, 1, Min(Len(raw), MAX_TEST_CASES)),
                                            testing_sessions[s].agent_data)]
    /\ UNCHANGED <<agent_data, call, ret, test_framework, testing_sessions, hash_seed,
                   db_test_cases>>

\* generate_test_cases, lines 205 and 207-215: no JSON in the answer, or an
\* exception: no test cases
GenLlmFails(s) ==
    LET t == <<s, "gen", 1>> IN
    /\ threads[t].kind = "gen"
    /\ threads[t].pc = "llm"
    /\ threads' = [threads EXCEPT ![t].pc = "finish", ![t].generated = <<>>]
    /\ UNCHANGED <<agent_data, call, ret, test_framework, testing_sessions, hash_seed,
                   db_test_cases>>

\* the list object a run thread iterates is the session's list while the
\* session still holds that object
Aliases(t, s) ==
    /\ t[1] = s
    /\ threads[t].kind = "run"
    /\ threads[t].pc \notin {"start", "done", "dead"}
    /\ threads[t].list_obj = testing_sessions[s].list_obj

\* lines 186-194 with the callback of app.py lines 1012-1015: each generated
\* test case is appended to the session's list
GenEmit(s) ==
    LET t == <<s, "gen", 1>>
        test_case == threads[t].generated[threads[t].k + 1]
    IN
    /\ threads[t].kind = "gen"
    /\ threads[t].pc = "emit"
    /\ threads[t].k < Len(threads[t].generated)
    /\ testing_sessions' = [testing_sessions EXCEPT ![s].test_cases = Append(@, test_case)]
    /\ threads' = [u \in ThreadKeys |->
            IF u = t THEN [threads[u] EXCEPT !.k = @ + 1]
            ELSE IF Aliases(u, s) THEN [threads[u] EXCEPT !.items = Append(@, test_case)]
            ELSE threads[u]]
    /\ UNCHANGED <<agent_data, call, ret, test_framework, hash_seed, db_test_cases>>

\* generate_with_progress, app.py lines 1018-1033
GenFinish(s) ==
    LET t == <<s, "gen", 1>> IN
    /\ threads[t].kind = "gen"
    /\ \/ threads[t].pc = "finish"
       \/ threads[t].pc = "emit" /\ threads[t].k = Len(threads[t].generated)
    /\ testing_sessions' = [testing_sessions EXCEPT
            ![s].test_cases = threads[t].generated,
            ![s].list_obj = "gen",
            ![s].status = "ready_for_confirmation"]
    /\ db_test_cases' = IF testing_sessions[s].analysis_id # None_
                        THEN threads[t].generated ELSE db_test_cases
    /\ threads' = [threads EXCEPT ![t].pc = "done"]
    /\ UNCHANGED <<agent_data, call, ret, test_framework, hash_seed>>

\* confirm_tests (lines 1125-1180): no check of the session's status
Confirm(s) ==
    /\ testing_sessions[s] # NoSession
    /\ \E k \in 1..MaxConfirms :
        /\ threads[<<s, "run", k>>] = NoThread
        /\ \A j \in 1..MaxConfirms : j < k => threads[<<s, "run", j>>] # NoThread
        /\ threads' = [threads EXCEPT ![<<s, "run", k>>] =
                [kind |-> "run", pc |-> "start", list_obj |-> "none", items |-> <<>>,
                 i |-> 0, results |-> <<>>, last |-> NoCall, report_out |-> NoCall]]
    /\ testing_sessions' = [testing_sessions EXCEPT ![s].status = "running_tests"]
    /\ UNCHANGED <<agent_data, call, ret, test_framework, hash_seed, db_test_cases>>

\* run_tests, lines 1144-1150
RunTestsStart(s, k) ==
    LET t == <<s, "run", k>> IN
    /\ threads[t].kind = "run"
    /\ threads[t].pc = "start"
    /\ threads' = [threads EXCEPT
            ![t].pc = "loop",
            ![t].items = testing_sessions[s].test_cases,
            ![t].list_obj = testing_sessions[s].list_obj]
    /\ UNCHANGED <<agent_data, call, ret, test_framework, testing_sessions, hash_seed,
                   db_test_cases>>

\* lines 1163-1164: the result is appended and published on the session
RunTestReturns(s, t, out) ==
    /\ threads' = [threads EXCEPT
            ![t].i = @ + 1,
            ![t].results = Append(@, out.value),
            ![t].last = out]
    /\ testing_sessions' = [testing_sessions EXCEPT
            ![s].test_results = Append(threads[t].results, out.value)]

\* one call of run_test at line 1162: the exception of lines 516-518 ends
\* the thread, everything else is a result
RunTest(s, k) ==
    LET t == <<s, "run", k>>
        init == run_test_init(test_framework, testing_sessions[s].agent_data)
    IN
    /\ threads[t].kind = "run"
    /\ threads[t].pc = "loop"
    /\ threads[t].i < Len(threads[t].items)
    /\ IF init.kind = "raise"
       THEN /\ threads' = [threads EXCEPT ![t].pc = "dead", ![t].last = init]
            /\ UNCHANGED testing_sessions
       ELSE \E clk \in ClockPool :
            RunTestReturns(s, t, run_test_dispatch(init.value,
                                                   threads[t].items[threads[t].i + 1],
                                                   hash_seed, clk))
    /\ UNCHANGED <<agent_data, call, ret, test_framework, hash_seed, db_test_cases>>

\* run_tests, lines 1166-1169: an exception of generate_test_report ends the thread
RunReport(s, k) ==
    LET t == <<s, "run", k>>
        out == generate_test_report(threads[t].results, testing_sessions[s].agent_data)
    IN
    /\ threads[t].kind = "run"
    /\ threads[t].pc = "loop"
    /\ threads[t].i >= Len(threads[t].items)
    /\ threads' = [threads EXCEPT
            ![t].pc = IF out.kind = "raise" THEN "dead" ELSE "done",
            ![t].report_out = out]
    /\ testing_sessions' =
            IF out.kind = "raise" THEN testing_sessions
            ELSE [testing_sessions EXCEPT ![s].report = out.value,
                                          ![s].status = "completed"]
    /\ UNCHANGED <<agent_data, call, ret, test_framework, hash_seed, db_test_cases>>

Next ==
    \/ \E s \in SessionIds : StartSession(s)
    \/ \E s \in SessionIds : GenBuildFramework(s)
    \/ \E s \in SessionIds : GenLlmReturns(s)
    \/ \E s \in SessionIds : GenLlmFails(s)
    \/ \E s \in SessionIds : GenEmit(s)
    \/ \E s \in SessionIds : GenFinish(s)
    \/ \E s \in SessionIds : Confirm(s)
    \/ \E s \in SessionIds, k \in 1..MaxConfirms : RunTestsStart(s, k)
    \/ \E s \in SessionIds, k \in 1..MaxConfirms : RunTest(s, k)
    \/ \E s \in SessionIds, k \in 1..MaxConfirms : RunReport(s, k)

Spec == Init /\ [][Next]_vars

\* the background threads are daemon threads of a live process and the LLM
\* call has a timeout: each enabled thread step is eventually taken.  Requests
\* (StartSession, Confirm) are the client's and carry no fairness.
ThreadStep(s) ==
    \/ GenBuildFramework(s)
    \/ GenLlmReturns(s)
    \/ GenLlmFails(s)
    \/ GenEmit(s)
    \/ GenFinish(s)
    \/ \E k \in 1..MaxConfirms : RunTestsStart(s, k) \/ RunTest(s, k) \/ RunReport(s, k)

FairSpec == Init /\ [][Next]_vars /\ \A s \in SessionIds : WF_vars(ThreadStep(s))

----------------------------------------------------------------------------
(* Claims about the sessions, checked under Spec and FairSpec *)

RunThreads == {t \in ThreadKeys : threads[t].kind = "run"}

\* C1: run_test never propagates an exception to its caller: in every state
\* of the generator, also one where generate_test_cases has built no
\* framework yet, a call of run_test returns, and a failure is returned as a
\* result with status error and empty metrics and recommendations.
C1_RunTestNeverRaises ==
    \A t \in RunThreads :
        threads[t].last # NoCall =>
            /\ threads[t].last.kind = "return"
            /\ threads[t].last.value.status = "error" =>
                  /\ threads[t].last.value.metrics = <<>>
                  /\ threads[t].last.value.recommendations = <<>>

\* C2: no simulation state is shared between sessions: whatever the
\* interleaving of generate_test_cases and run_test calls of different
\* sessions, the result run_test returns for a session is the one the test
\* case has on a framework built from that session's own agent data.
C2_OwnFramework ==
    \A t \in RunThreads :
        (threads[t].last # NoCall /\ threads[t].last.kind = "return") =>
            \E clk \in ClockPool :
                threads[t].last =
                    run_test_dispatch(
                        AgentTestFramework(testing_sessions[t[1]].agent_data, DefaultFramework),
                        threads[t].items[threads[t].i], hash_seed, clk)

\* C9: aggregation never fails: generate_test_report returns a report for
\* every list of results run_test produced, error results and results of
\* test cases without an id included, and for any agent data.
C9_ReportNeverRaises ==
    \A t \in RunThreads :
        threads[t].report_out # NoCall => threads[t].report_out.kind = "return"

Status(s) == testing_sessions[s].status

\* C10: a confirmed session eventually reaches status completed with a report
\* covering all of its test cases; a test case that fails is an error result
\* and stops neither the remaining test cases nor the aggregation.
C10_ConfirmedCompletes ==
    \A s \in SessionIds :
        (Status(s) = "running_tests") ~>
            (/\ Status(s) = "completed"
             /\ testing_sessions[s].report # NoReport
             /\ testing_sessions[s].report.summary.total_tests
                    = Len(testing_sessions[s].test_cases))

----------------------------------------------------------------------------
(* PipelineSpec: one call of _generate_recommendations or of run_test on a  *)
(* generator whose framework is built, in a process with some hash seed.    *)

MaxMetrics == 2

n_Accuracy == <<"A">> \o Tail(s_accuracy)
n_reasoning_accuracy == s_reasoning \o <<"_">> \o s_accuracy
n_reasoning_time == s_reasoning \o <<"_">> \o s_time
n_other == <<"x">>

MetricNamePool ==
    {s_accuracy, n_Accuracy, n_reasoning_accuracy, n_reasoning_time, s_reasoning,
     s_response_time, s_collaboration, n_other}

\* the metrics of a result, as _generate_recommendations receives them
ResultMetricPool ==
    [name : MetricNamePool, value : {Frac(70, 1), Frac(76, 1)}, unit : {"%"},
     benchmark : {95}, passed : BOOLEAN]

RecommendCase == TestCase(t1, "reasoning", "agent", a1, <<>>, <<>>)

\* the metrics a test case declares: with a benchmark or without one
DeclaredMetricPool ==
    {Metric(n, "%", b) : n \in {s_accuracy, s_response_time, s_reasoning}, b \in {2, 90}}
    \cup {[name |-> n, unit |-> "%"] : n \in {s_accuracy, s_response_time, s_reasoning}}

\* category, target type and target id; a3 is in no agent data
PipelineTargets ==
    {<<"tool_calling", "agent", a1>>, <<"tool_calling", "agent", a3>>,
     <<"performance", "agent", a1>>, <<"performance", "agent", a3>>,
     <<"reasoning", "agent", a1>>, <<"tool_calling", "tool", <<"s">>>>}

PipelineCasePool ==
    {TestCase(t1, c[1], c[2], c[3], <<>>, ms) :
        c \in PipelineTargets, ms \in SeqUpTo(DeclaredMetricPool, MaxMetrics)}

PipelineClockPool ==
    {[sim |-> 1, total |-> 2, stress |-> <<1, 1, 1, 1, 1>>],
     [sim |-> 2, total |-> 2, stress |-> <<1, 1, 1, 1, 11>>]}

PipelineSeeds == {0, 1}

PipelineInit ==
    /\ agent_data \in SessionDataPool
    /\ test_framework = AgentTestFramework(agent_data, DefaultFramework)
    /\ call = NoCall
    /\ ret = NoCall
    /\ testing_sessions = [s \in SessionIds |-> NoSession]
    /\ threads = [t \in ThreadKeys |-> NoThread]
    /\ hash_seed \in PipelineSeeds
    /\ db_test_cases = None_

GenerateRecommendations ==
    /\ call = NoCall
    /\ \E metrics \in SeqUpTo(ResultMetricPool, MaxMetrics) :
        /\ call' = [op |-> "recommend", test_case |-> RecommendCase, metrics |-> metrics]
        /\ ret' = Return(generate_recommendations(RecommendCase, metrics))
    /\ UNCHANGED <<agent_data, appVars>>

RunTestCall ==
    /\ call = NoCall
    /\ \E test_case \in PipelineCasePool, clk \in PipelineClockPool :
        /\ call' = [op |-> "run_test", test_case |-> test_case, clk |-> clk]
        /\ ret' = run_test_dispatch(test_framework, test_case, hash_seed, clk)
    /\ UNCHANGED <<agent_data, appVars>>

PipelineNext == RunTestCall \/ GenerateRecommendations

PipelineSpec == PipelineInit /\ [][PipelineNext]_vars

----------------------------------------------------------------------------
(* Claims about the pipeline, checked under PipelineSpec *)

Failed(metrics) == SelectSeq(metrics, LAMBDA m : ~m.passed)
NameHas(word, metric) == IsSubstring(word, Lower(metric.name))

\* C11 (as claimed): every failed metric whose name contains "reasoning" gets
\* a recommendation of severity high, whatever else its name contains.
C11_AsClaimed ==
    call.op = "recommend" =>
        \A k \in 1..Len(Failed(call.metrics)) :
            NameHas(s_reasoning, Failed(call.metrics)[k]) =>
                /\ k <= Len(ret.value)
                /\ ret.value[k].severity = "high"

\* C11: a failed metric whose name contains "reasoning" and neither
\* "accuracy" nor "time" gets a recommendation of severity high, whatever its
\* value and benchmark; the accuracy and time branches come first.
C11_ReasoningSeverity ==
    call.op = "recommend" =>
        \A k \in 1..Len(Failed(call.metrics)) :
            (/\ NameHas(s_reasoning, Failed(call.metrics)[k])
             /\ ~NameHas(s_accuracy, Failed(call.metrics)[k])
             /\ ~NameHas(s_time, Failed(call.metrics)[k])) =>
                /\ k <= Len(ret.value)
                /\ ret.value[k].severity = "high"

C11_Witness ==
    /\ call.op = "recommend"
    /\ \E k \in 1..Len(Failed(call.metrics)) :
        /\ Failed(call.metrics)[k].name = s_reasoning
        /\ Failed(call.metrics)[k].value = Frac(76, 1)
        /\ ret.value[k].severity = "high"

\* C12: _generate_recommendations yields exactly one recommendation per
\* metric with passed = false, in metric order, and none for a metric that
\* passed; every result of run_test has as many recommendations as metrics
\* with passed = false.
C12_OnePerFailedMetric ==
    /\ call.op = "recommend" =>
        /\ Len(ret.value) = Len(Failed(call.metrics))
        /\ \A k \in 1..Len(ret.value) :
            /\ ret.value[k].issue = Failed(call.metrics)[k].name
            /\ ret.value[k].category = call.test_case.category
    /\ call.op = "run_test" =>
        Len(ret.value.recommendations) = Len(Failed(ret.value.metrics))

C12_Witness ==
    /\ call.op = "recommend"
    /\ Len(call.metrics) = 2
    /\ call.metrics[1].passed
    /\ ~call.metrics[2].passed
    /\ Len(ret.value) = 1
    /\ ret.value[1].issue = call.metrics[2].name

\* C13: for a failed metric whose name contains "accuracy" in any case, the
\* severity is high iff value < 0.8 * benchmark and medium otherwise; value
\* 70 against benchmark 95 gives exactly one recommendation, of severity high.
C13_AccuracySeverity ==
    call.op = "recommend" =>
        \A k \in 1..Len(Failed(call.metrics)) :
            NameHas(s_accuracy, Failed(call.metrics)[k]) =>
                /\ k <= Len(ret.value)
                /\ ret.value[k].severity =
                     IF Failed(call.metrics)[k].value.n * 10
                          < Failed(call.metrics)[k].benchmark * 8
                            * Failed(call.metrics)[k].value.d
                     THEN "high" ELSE "medium"

C13_Witness ==
    /\ call.op = "recommend"
    /\ call.metrics = <<[name |-> s_accuracy, value |-> Frac(70, 1), unit |-> "%",
                         benchmark |-> 95, passed |-> FALSE]>>
    /\ Len(ret.value) = 1
    /\ ret.value[1].severity = "high"

ToolPathCall ==
    /\ call.op = "run_test"
    /\ call.test_case.category = "tool_calling"
    /\ call.test_case.target.type = "agent"

PerformancePathCall ==
    /\ call.op = "run_test"
    /\ call.test_case.category = "performance"
    /\ call.test_case.target.type = "agent"

GenericPathCall ==
    /\ call.op = "run_test"
    /\ ~ToolPathCall
    /\ ~PerformancePathCall

\* the value the tool_calling path is to give a metric of that name
ExpectedToolValue(simulation, name) ==
    IF IsSubstring(s_accuracy, name) THEN simulation.metrics.tool_accuracy
    ELSE IF IsSubstring(s_response_time, name) THEN simulation.execution_time
    ELSE Frac(85, 1)

\* C14 (as claimed): on the tool_calling/agent path every declared metric
\* produces one result metric, for whatever target agent.
C14_AsClaimed ==
    ToolPathCall =>
        /\ Len(ret.value.metrics) = Len(call.test_case.metrics)
        /\ \A i \in 1..Len(ret.value.metrics) :
            ret.value.metrics[i].name = call.test_case.metrics[i].name

\* C14: on the tool_calling/agent path, for a target agent of the agent data,
\* each declared metric produces one result metric whose value is the
\* simulation's tool_accuracy when the name contains "accuracy", its elapsed
\* time when the name contains "response_time" and 85 otherwise, and which
\* passed iff value >= benchmark.
C14_ToolCallingMetrics ==
    (ToolPathCall /\ KnownAgent(call.test_case.target.id)) =>
        /\ ret.value.status # "error"
        /\ Len(ret.value.metrics) = Len(call.test_case.metrics)
        /\ \A i \in 1..Len(ret.value.metrics) :
            /\ ret.value.metrics[i].name = call.test_case.metrics[i].name
            /\ ret.value.metrics[i].value =
                 ExpectedToolValue(SimulateKnown(test_framework, call.test_case.target.id,
                                                 call.test_case.test_input, call.clk.sim),
                                   call.test_case.metrics[i].name)
            /\ "benchmark" \in DOMAIN call.test_case.metrics[i] =>
                 ret.value.metrics[i].benchmark = call.test_case.metrics[i].benchmark
            /\ ret.value.metrics[i].passed =
                 FracLeq(Frac(ret.value.metrics[i].benchmark, 1), ret.value.metrics[i].value)

C14_Witness ==
    /\ ToolPathCall
    /\ KnownAgent(call.test_case.target.id)
    /\ call.clk.sim = 1
    /\ Len(ret.value.metrics) = 2
    /\ ret.value.metrics[1].name = s_accuracy
    /\ ret.value.metrics[1].value = Frac(100, 1)
    /\ ret.value.metrics[1].passed
    /\ ret.value.metrics[2].name = s_response_time
    /\ ret.value.metrics[2].value = Frac(1, 1)
    /\ ~ret.value.metrics[2].passed

\* C15: every result of run_test has status passed, warning or error, never
\* failed; when it is not error it is passed iff every metric of the result
\* passed, and warning otherwise.
C15_StatusFromMetrics ==
    call.op = "run_test" =>
        /\ ret.kind = "return"
        /\ ret.value.status \in {"passed", "warning", "error"}
        /\ ret.value.status # "error" =>
             ret.value.status = (IF \A i \in 1..Len(ret.value.metrics) :
                                        ret.value.metrics[i].passed
                                 THEN "passed" ELSE "warning")

C15_Witness ==
    /\ call.op = "run_test"
    /\ ret.value.status = "warning"
    /\ Len(ret.value.metrics) = 2
    /\ ret.value.metrics[1].passed
    /\ ~ret.value.metrics[2].passed

\* the benchmark a response-time metric of the performance path is held to
DeclaredBenchmark(metric) ==
    IF "benchmark" \in DOMAIN metric THEN metric.benchmark ELSE 500

TimedMetrics(metrics) ==
    SelectSeq(metrics, LAMBDA m : IsSubstring(s_response_time, m.name))

\* C16: on the performance/agent path run_test stresses the agent with
\* exactly 5 iterations; each declared metric whose name contains
\* "response_time" yields a result metric whose value is the average_time of
\* that stress run and which passed iff the value is <= the declared
\* benchmark, 500 when none is declared.
C16_PerformanceMetrics ==
    PerformancePathCall =>
        /\ ret.value.status # "error"
        /\ Len(ret.value.metrics) = Len(TimedMetrics(call.test_case.metrics))
        /\ \A i \in 1..Len(ret.value.metrics) :
            /\ ret.value.metrics[i].name = TimedMetrics(call.test_case.metrics)[i].name
            /\ ret.value.metrics[i].value =
                 run_stress_test(test_framework, call.test_case.target.id, 5,
                                 call.clk.stress).value.average_time
            /\ ret.value.metrics[i].passed =
                 FracLeq(ret.value.metrics[i].value,
                         Frac(DeclaredBenchmark(TimedMetrics(call.test_case.metrics)[i]), 1))

C16_Witness ==
    /\ PerformancePathCall
    /\ KnownAgent(call.test_case.target.id)
    /\ Len(call.test_case.metrics) = 2
    /\ Len(ret.value.metrics) = 2
    /\ FracEq(ret.value.metrics[1].value, Frac(3, 1))
    /\ "benchmark" \in DOMAIN call.test_case.metrics[1]
    /\ ~ret.value.metrics[1].passed
    /\ "benchmark" \notin DOMAIN call.test_case.metrics[2]
    /\ ret.value.metrics[2].passed

\* C17: on the generic path each metric value is 85 + (hash(name) mod 15), an
\* integer in [85, 99], and depends on the metric name alone: any run of the
\* pipeline, in whatever process, gives the same value for the same name.
C17_HashDeterminism ==
    GenericPathCall =>
        \A i \in 1..Len(ret.value.metrics) :
            /\ ret.value.metrics[i].value.d = 1
            /\ ret.value.metrics[i].value.n \in 85..99
            /\ \A seed \in PipelineSeeds :
                ret.value.metrics[i].value =
                    Frac(85 + (PyHash(seed, ret.value.metrics[i].name) % 15), 1)

----------------------------------------------------------------------------
(* TraceSpec: simulate on a framework whose agent data has up to            *)
(* MaxTraceTools tools, all resolved by the declared name "s", and any      *)
(* relationships among a1, a2 and a3 (a3 is not an agent): parallel edges,  *)
(* cycles, self loops.                                                      *)

MaxTraceTools == 3
MaxRels == 2

TraceTool(k) == [id |-> <<"s", DigitChars[k]>>, name |-> <<"s">>]
TraceRelPool == {Rel(r1, from, to) : from \in AgentIdPool, to \in AgentIdPool}

TraceDataPool ==
    {[agents |-> <<Agent(a1, declared, 5, 500, <<3, 2, 1>>),
                   Agent(a2, <<>>, 25, 0, <<0, 0, 0>>)>>,
      tools |-> [i \in 1..k |-> TraceTool(i)],
      relationships |-> rels] :
        declared \in {<<>>, <<<<"s">>>>, <<<<"w">>>>},
        k \in 0..MaxTraceTools,
        rels \in SeqUpTo(TraceRelPool, MaxRels)}

TraceInit ==
    /\ agent_data \in TraceDataPool
    /\ test_framework = AgentTestFramework(agent_data, DefaultFramework)
    /\ call = NoCall
    /\ ret = NoCall
    /\ testing_sessions = [s \in SessionIds |-> NoSession]
    /\ threads = [t \in ThreadKeys |-> NoThread]
    /\ hash_seed = 0
    /\ db_test_cases = None_

TraceNext == Simulate

TraceSpec == TraceInit /\ [][TraceNext]_vars

----------------------------------------------------------------------------
(* Claims about the trace and the graph, checked under TraceSpec *)

KnownSimulation == call.op = "simulate" /\ KnownAgent(call.agent_id)

\* C18: for a known agent the trace is one initialization step (passed), one
\* tool_validation step, one config_validation step, min(2, resolved tools)
\* tool_execution steps (passed, for the first resolved tools in order) and
\* at most one agent_collaboration step, in this order and nothing else: 3
\* to 6 steps.
C18_TraceShape ==
    KnownSimulation =>
        LET steps == ret.value.steps
            resolved == ResolvedTools(ret.value)
            n == Min(2, Len(resolved))
        IN /\ Len(steps) \in {3 + n, 4 + n}
           /\ Len(steps) >= 3
           /\ Len(steps) <= 6
           /\ steps[1].step = "initialization"
           /\ steps[1].status = "passed"
           /\ steps[2].step = "tool_validation"
           /\ steps[3].step = "config_validation"
           /\ \A i \in 1..n :
                /\ steps[3 + i].step = "tool_execution"
                /\ steps[3 + i].status = "passed"
                /\ steps[3 + i].tool_name = ToolName(resolved[i])
           /\ Len(steps) = 4 + n => steps[4 + n].step = "agent_collaboration"

C18_Witness ==
    /\ KnownSimulation
    /\ Len(ResolvedTools(ret.value)) = 3
    /\ Len(ret.value.steps) = 6
    /\ ret.value.steps[6].step = "agent_collaboration"

\* the relationships leaving an agent, in the order of the relationship list
OutEdges(id) == SelectSeq(agent_data.relationships, LAMBDA r : r.from_agent_id = id)
InEdges(id) == SelectSeq(agent_data.relationships, LAMBDA r : r.to_agent_id = id)

CollaborationSteps(sim) == SelectSeq(sim.steps, LAMBDA st : st.step = "agent_collaboration")

\* C19: for a known agent there is an agent_collaboration step iff the agent
\* has an outgoing edge; the step lists the target of every outgoing edge in
\* insertion order, and collaboration_score is 20 times the number of
\* outgoing edges.
C19_Collaboration ==
    KnownSimulation =>
        LET out == OutEdges(call.agent_id)
            collab == CollaborationSteps(ret.value)
        IN /\ Len(collab) = (IF out # <<>> THEN 1 ELSE 0)
           /\ out # <<>> =>
                /\ collab[1].status = "passed"
                /\ collab[1].collaborators = [i \in 1..Len(out) |-> out[i].to_agent_id]
           /\ ret.value.metrics.collaboration_score = 20 * Len(out)

C19_Witness ==
    /\ KnownSimulation
    /\ call.agent_id = a1
    /\ agent_data.relationships = <<Rel(r1, a1, a2)>>
    /\ CollaborationSteps(ret.value)[1].collaborators = <<a2>>
    /\ ret.value.metrics.collaboration_score = 20

RECURSIVE SumLen(_, _)
SumLen(graph, field) ==
    IF graph = <<>> THEN 0
    ELSE Len(graph[1].value[field]) + SumLen(Tail(graph), field)

EndpointsOf(rels) ==
    {rels[i].from_agent_id : i \in 1..Len(rels)} \cup {rels[i].to_agent_id : i \in 1..Len(rels)}

\* C20: the graph mirrors the relationship list: each relationship adds one
\* entry to its source's calls and one to its target's called_by, in order
\* and without deduplication; the nodes are exactly the endpoints, agents or
\* not; and the calls entries, the called_by entries and the relationships
\* are equally many.
C20_GraphMirrorsRelationships ==
    LET graph == test_framework.agent_graph
        rels == agent_data.relationships
    IN /\ {graph[i].key : i \in 1..Len(graph)} = EndpointsOf(rels)
       /\ \A i, j \in 1..Len(graph) : graph[i].key = graph[j].key => i = j
       /\ \A i \in 1..Len(graph) :
            /\ graph[i].value.calls =
                 [k \in 1..Len(OutEdges(graph[i].key)) |->
                    [agent_id |-> OutEdges(graph[i].key)[k].to_agent_id,
                     relationship |-> OutEdges(graph[i].key)[k]]]
            /\ graph[i].value.called_by =
                 [k \in 1..Len(InEdges(graph[i].key)) |->
                    [agent_id |-> InEdges(graph[i].key)[k].from_agent_id,
                     relationship |-> InEdges(graph[i].key)[k]]]
       /\ SumLen(graph, "calls") = Len(rels)
       /\ SumLen(graph, "called_by") = Len(rels)

\* two parallel edges to a node that is not an agent
C20_Witness ==
    /\ agent_data.relationships = <<Rel(r1, a1, a3), Rel(r1, a1, a3)>>
    /\ HasKey(test_framework.agent_graph, a3)
    /\ Len(DictGet(test_framework.agent_graph, a1).calls) = 2
    /\ Len(DictGet(test_framework.agent_graph, a3).called_by) = 2

----------------------------------------------------------------------------
(* ConfigSpec: simulate and test_reasoning on a framework whose agent a1    *)
(* has a model configuration and text lengths on either side of every       *)
(* threshold of the code.                                                   *)

\* tenths of a degree: -0.1, 0, 0.5, 2.0, 2.1
TemperaturePool == {-1, 0, 5, 20, 21}
MaxTokensPool == {-1, 0, 1, 500}
ObjectiveLengths == {0, 10, 11}
PromptLengths == {50, 51}
InstructionLengths == {20, 21}

ConfigDataPool ==
    {[agents |-> <<Agent(a1, <<<<"s">>>>, temperature, max_tokens, <<o, p, i>>)>>,
      tools |-> <<SearchTool>>,
      relationships |-> <<>>] :
        temperature \in TemperaturePool, max_tokens \in MaxTokensPool,
        o \in ObjectiveLengths, p \in PromptLengths, i \in InstructionLengths}

ConfigInit ==
    /\ agent_data \in ConfigDataPool
    /\ test_framework = AgentTestFramework(agent_data, DefaultFramework)
    /\ call = NoCall
    /\ ret = NoCall
    /\ testing_sessions = [s \in SessionIds |-> NoSession]
    /\ threads = [t \in ThreadKeys |-> NoThread]
    /\ hash_seed = 0
    /\ db_test_cases = None_

ConfigNext == Simulate \/ TestReasoning

ConfigSpec == ConfigInit /\ [][ConfigNext]_vars

----------------------------------------------------------------------------
(* Claims about the configuration check and the reasoning rubric, checked   *)
(* under ConfigSpec                                                         *)

\* 0 <= temperature <= 2 and max_tokens > 0, read from the agent data
InRange(agent) ==
    /\ agent.model_config.temperature \in 0..20
    /\ agent.model_config.max_tokens >= 1

\* C21: for a known agent simulate returns, without error, config_validity
\* 100 or 50: 100 iff 0 <= temperature <= 2 and max_tokens > 0, and in
\* exactly that case the config_validation step is passed, otherwise failed.
C21_ConfigValidity ==
    KnownSimulation =>
        /\ ret.kind = "return"
        /\ "error" \notin DOMAIN ret.value
        /\ ret.value.success
        /\ ret.value.metrics.config_validity \in {100, 50}
        /\ ret.value.metrics.config_validity = 100 <=> InRange(AgentOf(call.agent_id))
        /\ ret.value.steps[3].step = "config_validation"
        /\ ret.value.steps[3].status =
             (IF InRange(AgentOf(call.agent_id)) THEN "passed" ELSE "failed")

\* a temperature of 2.1 with max_tokens 500: degraded, not an error
C21_Witness ==
    /\ KnownSimulation
    /\ AgentOf(call.agent_id).model_config = [temperature |-> 21, max_tokens |-> 500]
    /\ ret.kind = "return"
    /\ ret.value.success
    /\ ret.value.metrics.config_validity = 50
    /\ ret.value.steps[3].status = "failed"

Indicator(b) == IF b THEN 1 ELSE 0

\* C22: for a known agent test_reasoning returns reasoning_score =
\* 30*[len(objective) > 10] + 40*[len(prompt) > 50] +
\* 30*[len(system_instruction) > 20], one of 0, 30, 40, 60, 70, 100, and
\* passed iff the score is at least 70.
C22_ReasoningRubric ==
    (call.op = "reasoning" /\ KnownAgent(call.agent_id)) =>
        LET agent == AgentOf(call.agent_id)
        IN /\ ret.kind = "return"
           /\ ret.value.reasoning_score =
                30 * Indicator(Len(agent.objective) >= 11)
                + 40 * Indicator(Len(agent.prompt) >= 51)
                + 30 * Indicator(Len(agent.system_instruction) >= 21)
           /\ ret.value.reasoning_score \in {0, 30, 40, 60, 70, 100}
           /\ ret.value.passed <=> ret.value.reasoning_score >= 70

\* objective and system instruction long enough, prompt of 50 characters:
\* a score of 60, not passed
C22_Witness ==
    /\ call.op = "reasoning"
    /\ KnownAgent(call.agent_id)
    /\ Len(AgentOf(call.agent_id).objective) = 11
    /\ Len(AgentOf(call.agent_id).prompt) = 50
    /\ Len(AgentOf(call.agent_id).system_instruction) = 21
    /\ ret.value.reasoning_score = 60
    /\ ~ret.value.passed

----------------------------------------------------------------------------
(* ReportSpec: one call of generate_test_report on a list of up to          *)
(* MaxResults results.  A result is identified by its test_id alone, by a   *)
(* test_id that starts with the id of agent a1, or by highlight_elements    *)
(* that contain agent a2; it carries one of five status/metrics pairs.      *)

MaxResults == 3

ResultMetric(name, value, benchmark) ==
    [name |-> name, value |-> value, unit |-> "%", benchmark |-> benchmark,
     passed |-> FracLeq(Frac(benchmark, 1), value)]

\* 100/3 is the tool_accuracy of one tool resolved for three declared names
StatusMetricsPool ==
    {<<"passed", <<ResultMetric(s_accuracy, Frac(86, 1), 80)>>>>,
     <<"failed", <<ResultMetric(s_accuracy, Frac(100, 3), 90)>>>>,
     <<"warning", <<ResultMetric(s_accuracy, Frac(86, 1), 90),
                    ResultMetric(n_other, Frac(84, 1), 80)>>>>,
     <<"error", <<>>>>,
     <<"passed", <<ResultMetric(n_other, Frac(254, 3), 80)>>>>}

ReportResultPool ==
    {[test_id |-> t1, status |-> sm[1], metrics |-> sm[2], recommendations |-> <<>>] :
        sm \in StatusMetricsPool}
    \cup {[test_id |-> a1 \o <<"_">> \o t1, status |-> sm[1], metrics |-> sm[2],
           recommendations |-> <<>>] : sm \in StatusMetricsPool}
    \cup {[test_id |-> t1, status |-> sm[1], metrics |-> sm[2], recommendations |-> <<>>,
           highlight_elements |-> <<ts, a2>>] : sm \in StatusMetricsPool}

ReportInit ==
    /\ agent_data = DataA
    /\ test_framework = AgentTestFramework(agent_data, DefaultFramework)
    /\ call = NoCall
    /\ ret = NoCall
    /\ testing_sessions = [s \in SessionIds |-> NoSession]
    /\ threads = [t \in ThreadKeys |-> NoThread]
    /\ hash_seed = 0
    /\ db_test_cases = None_

GenerateTestReport ==
    /\ call = NoCall
    /\ \E results \in SeqUpTo(ReportResultPool, MaxResults) :
        /\ call' = [op |-> "report", test_results |-> results]
        /\ ret' = generate_test_report(results, agent_data)
    /\ UNCHANGED <<agent_data, appVars>>

ReportNext == GenerateTestReport

ReportSpec == ReportInit /\ [][ReportNext]_vars

----------------------------------------------------------------------------
(* Claims about the report, checked under ReportSpec *)

ReportReturned == call.op = "report" /\ ret.kind = "return"

\* the number of results of the call with a status
NumStatus(status) ==
    Cardinality({i \in 1..Len(call.test_results) : call.test_results[i].status = status})

SummaryCounts ==
    /\ ret.value.summary.total_tests = Len(call.test_results)
    /\ ret.value.summary.passed = NumStatus("passed")
    /\ ret.value.summary.failed = NumStatus("failed")
    /\ ret.value.summary.warnings = NumStatus("warning")
    /\ ret.value.summary.errors = NumStatus("error")

EmptyReport ==
    /\ ret.kind = "return"
    /\ ret.value.summary.total_tests = 0
    /\ ret.value.summary.success_rate = Frac(0, 100)
    /\ ret.value.category_performance = <<>>
    /\ ret.value.agent_performance = <<>>
    /\ ret.value.charts_data.category_scores.labels = <<>>
    /\ ret.value.charts_data.category_scores.values = <<>>
    /\ ret.value.charts_data.category_scores.benchmarks = <<>>
    /\ ret.value.charts_data.agent_comparison.labels = <<>>
    /\ ret.value.charts_data.agent_comparison.values = <<>>

\* C23 as claimed: the summary counts the results by status and
\* success_rate is passed/total*100 (0 when there is no result); the report
\* of an empty list is returned with total_tests 0, success_rate 0 and empty
\* category, agent and chart arrays.
C23_AsClaimed ==
    /\ ReportReturned =>
        /\ SummaryCounts
        /\ Len(call.test_results) > 0 =>
             FracEq(ret.value.summary.success_rate,
                    Frac(NumStatus("passed") * 100, Len(call.test_results)))
    /\ (call.op = "report" /\ call.test_results = <<>>) => EmptyReport

\* C23: the same, with success_rate being passed/total*100 rounded to two
\* decimals.
C23_SummaryCounts ==
    /\ ReportReturned =>
        /\ SummaryCounts
        /\ Len(call.test_results) > 0 =>
             ret.value.summary.success_rate =
                Round2(Frac(NumStatus("passed") * 100, Len(call.test_results)))
    /\ (call.op = "report" /\ call.test_results = <<>>) => EmptyReport

\* one result of three passed: 33.33
C23_Witness ==
    /\ ReportReturned
    /\ Len(call.test_results) = 3
    /\ NumStatus("passed") = 1
    /\ NumStatus("error") = 1
    /\ ret.value.summary.success_rate = Frac(3333, 100)

\* every metric of every result of the call, and the values under a name
CallMetrics == Flatten([i \in 1..Len(call.test_results) |-> call.test_results[i].metrics])
ValuesOf(metrics) == [i \in 1..Len(metrics) |-> metrics[i].value]
ValuesNamed(name) == ValuesOf(SelectSeq(CallMetrics, LAMBDA m : m.name = name))

\* one entry per distinct metric name, with the fixed benchmark 85 and the
\* passed flag of the mean
CategoryEntries ==
    LET entries == ret.value.category_performance
    IN /\ {entries[i].category : i \in 1..Len(entries)} =
              {CallMetrics[k].name : k \in 1..Len(CallMetrics)}
       /\ \A i, j \in 1..Len(entries) : entries[i].category = entries[j].category => i = j
       /\ \A i \in 1..Len(entries) :
            /\ entries[i].benchmark = 85
            /\ entries[i].passed <=>
                 FracLeq(Frac(85, 1), Mean(ValuesNamed(entries[i].category)))

\* C24 as claimed: category_performance has one entry per distinct metric
\* name of the results; average_score is the mean of the values recorded
\* under the name, benchmark is 85 and passed is (mean >= 85), whatever
\* benchmark the metrics declare.
C24_AsClaimed ==
    ReportReturned =>
        /\ CategoryEntries
        /\ \A i \in 1..Len(ret.value.category_performance) :
             FracEq(ret.value.category_performance[i].average_score,
                    Mean(ValuesNamed(ret.value.category_performance[i].category)))

\* C24: the same, with average_score being the mean rounded to two decimals.
C24_CategoryPerformance ==
    ReportReturned =>
        /\ CategoryEntries
        /\ \A i \in 1..Len(ret.value.category_performance) :
             ret.value.category_performance[i].average_score =
                Round2(Mean(ValuesNamed(ret.value.category_performance[i].category)))

\* two names; the accuracy values 86, 86, 86 declare the benchmark 90 and
\* fail it one by one, and the category passes the benchmark 85
C24_Witness ==
    /\ ReportReturned
    /\ Len(ret.value.category_performance) = 2
    /\ Len(ValuesNamed(s_accuracy)) = 3
    /\ \A k \in 1..Len(CallMetrics) :
         CallMetrics[k].name = s_accuracy =>
            CallMetrics[k].benchmark = 90 /\ ~CallMetrics[k].passed
    /\ \E i \in 1..2 :
         /\ ret.value.category_performance[i].category = s_accuracy
         /\ ret.value.category_performance[i].average_score = Frac(8600, 100)
         /\ ret.value.category_performance[i].passed

\* the results of the call that belong to an agent
ResultsOf(agent_id) ==
    SelectSeq(call.test_results,
              LAMBDA r : \/ StartsWith(r.test_id, agent_id)
                         \/ /\ "highlight_elements" \in DOMAIN r
                            /\ \E k \in 1..Len(r.highlight_elements) :
                                 r.highlight_elements[k] = agent_id)

NumResultsOf(agent_id, status) ==
    Cardinality({i \in 1..Len(ResultsOf(agent_id)) : ResultsOf(agent_id)[i].status = status})

MetricsOf(agent_id) ==
    Flatten([i \in 1..Len(ResultsOf(agent_id)) |-> ResultsOf(agent_id)[i].metrics])

\* the entries of agent_performance that carry the agent's name
EntriesOf(agent) ==
    SelectSeq(ret.value.agent_performance, LAMBDA e : e.name = agent.name)

\* an entry iff the agent has a result, with the counts of its results
AgentEntries ==
    /\ \A i \in 1..Len(agent_data.agents) :
        LET agent == agent_data.agents[i]
        IN /\ Len(EntriesOf(agent)) = (IF ResultsOf(agent.id) # <<>> THEN 1 ELSE 0)
           /\ ResultsOf(agent.id) # <<>> =>
                /\ EntriesOf(agent)[1].tests_run = Len(ResultsOf(agent.id))
                /\ EntriesOf(agent)[1].passed = NumResultsOf(agent.id, "passed")
                /\ EntriesOf(agent)[1].failed = NumResultsOf(agent.id, "failed")
    /\ \A k \in 1..Len(ret.value.agent_performance) :
        \E i \in 1..Len(agent_data.agents) :
            agent_data.agents[i].name = ret.value.agent_performance[k].name

----------------------------------------------------------------------------
(* Claims about the pipeline end to end, checked under Spec *)

\* the agents of a session's agent data with an id
DeclaredAgents(s, id) ==
    SelectSeq(testing_sessions[s].agent_data.agents, LAMBDA a : a.id = id)

\* C26: in the report built from the results run_test returned, every
\* declared agent that is the target of an executed test case, and so is in
\* its highlight_elements, has an entry in agent_performance with
\* tests_run >= 1.
C26_TargetAgentsReported ==
    \A t \in RunThreads :
        (threads[t].report_out # NoCall /\ threads[t].report_out.kind = "return") =>
            \A i \in 1..Len(threads[t].items) :
                LET test_case == threads[t].items[i]
                IN (/\ test_case.target.type = "agent"
                    /\ InList(test_case.target.id, test_case.highlight_elements)
                    /\ DeclaredAgents(t[1], test_case.target.id) # <<>>) =>
                        \E k \in 1..Len(threads[t].report_out.value.agent_performance) :
                            /\ threads[t].report_out.value.agent_performance[k].name =
                                 DeclaredAgents(t[1], test_case.target.id)[1].name
                            /\ threads[t].report_out.value.agent_performance[k].tests_run >= 1

----------------------------------------------------------------------------
(* Claims about run_test on unknown targets, checked under PipelineSpec *)

\* C27: run_test never reports status passed for a test case whose target
\* is an agent id that is not in the agent data, on any dispatch path.
C27_UnknownTargetNeverPasses ==
    (/\ call.op = "run_test"
     /\ call.test_case.target.type = "agent"
     /\ ~KnownAgent(call.test_case.target.id)) =>
        ~(ret.kind = "return" /\ ret.value.status = "passed")

----------------------------------------------------------------------------
(* services/test_generator.py: _generate_fallback_tests, and FallbackSpec:  *)
(* run_test on one of the test cases it generates.  The name, description   *)
(* and criteria texts of the test cases carry no state and are left out.    *)

n_Tool_Accuracy == <<"T", "o", "o", "l", " ", "A", "c", "c", "u", "r", "a", "c", "y">>
n_Reasoning_Score == <<"R", "e", "a", "s", "o", "n", "i", "n", "g", " ", "S", "c", "o", "r", "e">>
n_Response_Time == <<"R", "e", "s", "p", "o", "n", "s", "e", " ", "T", "i", "m", "e">>

\* f'test_case_{test_id}'
FallbackId(test_id) == <<"t", "e", "s", "t", "_", "c", "a", "s", "e", "_", DigitChars[test_id]>>

\* the test inputs 'Test scenario requiring tool usage', 'Complex scenario
\* requiring logical reasoning' and 'Load test scenario', abbreviated
FallbackInput(category) ==
    IF category = "tool_calling" THEN <<"T", "s">>
    ELSE IF category = "reasoning" THEN <<"C", "s">>
    ELSE <<"L", "t">>

FallbackCase(test_id, category, agent_id, metric) ==
    [id |-> FallbackId(test_id),
     category |-> category,
     target |-> [type |-> "agent", id |-> agent_id],
     test_input |-> FallbackInput(category),
     highlight_elements |-> <<agent_id>>,
     metrics |-> <<metric>>]

\* lines 233-261 and 264-288: the two test cases of the i-th agent
FallbackAgentCases(agent, i) ==
    <<FallbackCase(2 * i - 1, "tool_calling", agent.id, Metric(n_Tool_Accuracy, "%", 90)),
      FallbackCase(2 * i, "reasoning", agent.id, Metric(n_Reasoning_Score, "%", 85))>>

\* _generate_fallback_tests(agent_data)
generate_fallback_tests(ad) ==
    LET agents == SubSeq(ad.agents, 1, Min(Len(ad.agents), 5))
        per_agent == Flatten([i \in 1..Len(agents) |-> FallbackAgentCases(agents[i], i)])
        test_cases ==
            IF ad.agents # <<>>
            THEN Append(per_agent,
                        FallbackCase(Len(per_agent) + 1, "performance", ad.agents[1].id,
                                     Metric(n_Response_Time, "ms", 500)))
            ELSE per_agent
    IN SubSeq(test_cases, 1, Min(Len(test_cases), MAX_TEST_CASES))

\* agent a1 declares up to two names, and up to MaxTraceTools tools carry
\* the name "s"
FallbackDataPool ==
    {[agents |-> <<Agent(a1, declared, 5, 500, <<3, 2, 1>>)>>,
      tools |-> [i \in 1..k |-> TraceTool(i)],
      relationships |-> <<>>] :
        declared \in {<<>>, <<<<"s">>>>, <<<<"w">>>>, <<<<"s">>, <<"w">>>>},
        k \in 0..MaxTraceTools}

FallbackInit ==
    /\ agent_data \in FallbackDataPool
    /\ test_framework = AgentTestFramework(agent_data, DefaultFramework)
    /\ call = NoCall
    /\ ret = NoCall
    /\ testing_sessions = [s \in SessionIds |-> NoSession]
    /\ threads = [t \in ThreadKeys |-> NoThread]
    /\ hash_seed \in PipelineSeeds
    /\ db_test_cases = None_

RunFallbackTest ==
    /\ call = NoCall
    /\ \E i \in 1..Len(generate_fallback_tests(agent_data)), clk \in PipelineClockPool :
        /\ call' = [op |-> "run_test",
                    test_case |-> generate_fallback_tests(agent_data)[i], clk |-> clk]
        /\ ret' = run_test_dispatch(test_framework,
                                    generate_fallback_tests(agent_data)[i], hash_seed, clk)
    /\ UNCHANGED <<agent_data, appVars>>

FallbackNext == RunFallbackTest

FallbackSpec == FallbackInit /\ [][FallbackNext]_vars

----------------------------------------------------------------------------
(* Claims about the fallback test cases, checked under FallbackSpec *)

\* tool_accuracy as simulate reports it for the target: resolved tools over
\* declared names, in percent
TargetToolAccuracy ==
    LET agent == AgentOf(call.test_case.target.id)
    IN Frac(100 * Len(AvailableTools(test_framework, agent.tools)), Max(Len(agent.tools), 1))

\* C28: for a fallback tool-calling test case (metric "Tool Accuracy",
\* benchmark 90) the metric value run_test reports is the simulator's
\* tool_accuracy for the target agent, and the test passes iff that
\* tool_accuracy is at least 90.
C28_FallbackToolAccuracy ==
    (ToolPathCall /\ call.test_case.metrics[1].name = n_Tool_Accuracy) =>
        /\ ret.kind = "return"
        /\ Len(ret.value.metrics) = 1
        /\ FracEq(ret.value.metrics[1].value, TargetToolAccuracy)
        /\ ret.value.status = "passed" <=> FracLeq(Frac(90, 1), TargetToolAccuracy)

----------------------------------------------------------------------------
(* RevalidateSpec: _validate_and_fix_test_cases applied to generated test   *)
(* cases, and then once more to the list it returned, with the same agent   *)
(* data.                                                                    *)

ValidateAgain ==
    /\ call.op = "validate"
    /\ call' = [op |-> "revalidate", test_cases |-> ret.value]
    /\ ret' = Return(validate_and_fix_test_cases(ret.value, agent_data))
    /\ UNCHANGED <<agent_data, appVars>>

RevalidateNext == ValidateAndFix \/ ValidateAgain

RevalidateSpec == ValidateInit /\ [][RevalidateNext]_vars

\* C29: applying _validate_and_fix_test_cases to its own output, with the
\* same agent data, leaves the highlight_elements of every test case
\* unchanged.
C29_ValidateIdempotent ==
    call.op = "revalidate" =>
        \A i \in 1..Len(call.test_cases) :
            ret.value[i].highlight_elements = call.test_cases[i].highlight_elements

----------------------------------------------------------------------------
(* Claims about the order of a session's statuses, checked under FairSpec *)

\* C30: under every interleaving of the generation thread, the confirm
\* request and the test-running thread, a session's status never returns to
\* ready_for_confirmation once it is running_tests or completed, and the
\* session's test_cases are not replaced while its tests are running.
C30_StatusForward ==
    [][\A s \in SessionIds :
        /\ Status(s) \in {"running_tests", "completed"} =>
             testing_sessions'[s].status # "ready_for_confirmation"
        /\ Status(s) = "running_tests" =>
             testing_sessions'[s].test_cases = testing_sessions[s].test_cases]_vars

====
